---- MODULE Spec2Model ----
(***************************************************************************)
(* Verification model of the document reconstruction pipeline:             *)
(*   - mergeSpitsIntoChunk      (src/semanticChunk/contentSplit.py)        *)
(*   - process_analyze_result   (src/docProcess/                           *)
(*                               azureDocIntelligResultPostProcessor.py)   *)
(*   - PageSpanCalculator       (src/docProcess/elementProcess/            *)
(*                               pageProcessor.py)                         *)
(*   - section hierarchy, numbering and element ordering                   *)
(*                              (src/docProcess/docIntelligElementTools.py)*)
(*   - AzureOpenAIClientsRoundRobin (src/roundRobin/                       *)
(*                               azureOpenAIClientRoundRobin.py)           *)
(*   - processMergdeChunkFile and process_big_chunk_file                   *)
(*                              (src/semanticChunk/)                       *)
(* Coroutine functions (async def) are modelled by the value they return   *)
(* when awaited, which is how App.py drives the pipeline.                  *)
(***************************************************************************)
EXTENDS Integers, Sequences, FiniteSets, TLC

VARIABLES
    \* ---- mergeSpitsIntoChunk ----
    splitResult,      \* the input list: token count of each split (content = its position)
    index,            \* number of splits consumed so far (0-based index of the next one)
    mergedChunkList,  \* list of MergedChunk records
    combinedTokens,   \* running total of the chunk being accumulated
    combinedContent,  \* content of the chunk being accumulated
    mergePc,          \* position in mergeSpitsIntoChunk
    \* ---- process_analyze_result ----
    on_error,                     \* "ignore" or "raise"
    pages,                        \* analyze_result.pages
    page_span_calculator,         \* the PageSpanCalculator, <<>> before it is built
    doc_page_imgs,                \* the page images given (or None)
    element_idx,                  \* number of elements of the ordered list consumed
    current,                      \* the element the loop handled last, and what became of it
    lastError,                    \* the exception raised by the latest step, "none" if none
    full_output_list,             \* the output units
    transformed_page_imgs,        \* page numbers whose image was exported
    current_page_info,            \* position in pages of the current page, 0 for None
    current_section_heirarchy_incremental_id,
    current_page_priority_spans,  \* the claimed spans
    unprocessed_element_counter,  \* elements without a processor, by class name
    asmPc,                        \* position in process_analyze_result
    \* ---- PageSpanCalculator on its own ----
    calc_pages,                   \* analyze_result.pages given to the constructor
    calc_instance,                   \* the constructed PageSpanCalculator, <<>> if none
    calc_offset,            \* the argument of the latest determine_span_start_page
    calc_result,                   \* what that call returned, 0 if it raised
    calcPc,                       \* "new", "built", "gap_error", "answered", "range_error"
    \* ---- section hierarchy and numbering ----
    sections,                         \* analyze_result.sections: the child section ids of each
    section_direct_children_mapper,
    full_heirarchy,
    missing_ids,
    resolved_section_heirarchy,                \* what get_section_heirarchy returned
    section_to_incremental_id_mapper, \* what the numbering returned
    secPc,                            \* "start", "resolving", "resolved", "numbered", or an error
    \* ---- get_element_span_info_list and order_element_info_list ----
    element_span_info_list,           \* the list the pre-pass has collected so far
    ordered_element_span_info_list,   \* what order_element_info_list returned
    orderPc,                          \* "collecting", "ordered" or "KeyError"
    \* ---- AzureOpenAIClientsRoundRobin ----
    clients,                          \* self.clients: the handle at each position 0..n-1
    rr_index,                         \* self.index
    lock,                             \* self.lock: the caller holding it, 0 if free
    client,                           \* the local variable client of each caller
    granted,                          \* the handles read under the lock, in the order of the grants
    rrPc,                             \* position of each caller in get_next_client
    \* ---- processMergdeChunkFile and process_big_chunk_file ----
    CONCURRENT_SIZE,                  \* the environment setting read at import
    sem_value,                        \* the free slots of SEM
    chunkTasks,                       \* position of each process_big_chunk_file task
    attempt_number,                   \* attempts of content_chunk_by_llm each task has started
    saved_parts,                      \* the tasks whose part files have been written
    gatherPc,                         \* position in processMergdeChunkFile
    \* ---- numbering of the elements the sections list ----
    listing_sections,                 \* analyze_result.sections: the child section ids of each
    section_elements,                 \* the non-section elements each section lists
    elem_heirarchy_mapper,            \* what get_element_heirarchy_mapper returned
    element_to_incremental_id_mapper, \* what convert_element_heirarchy_to_incremental_numbering returned
    collected_ids,                    \* section_heirarchy_incremental_id of the collected elements
    elemPc,                           \* "start", "mapped", "numbered", "collected" or an error
    \* ---- substitute_content_formulas and substitute_content_barcodes ----
    placeholder_kind,                 \* "formula" or "barcode": the function called
    subst_content,                    \* the argument content, a sequence of characters
    matching_values,                  \* the values of the matched formulas or barcodes
    new_content,                      \* the text returned
    substPc                           \* "call", "returned" or "ValueError"

mergeVars == <<splitResult, index, mergedChunkList, combinedTokens, combinedContent, mergePc>>

asmVars == <<on_error, pages, page_span_calculator, doc_page_imgs, element_idx, current, lastError,
             full_output_list, transformed_page_imgs, current_page_info,
             current_section_heirarchy_incremental_id, current_page_priority_spans,
             unprocessed_element_counter, asmPc>>

calcVars == <<calc_pages, calc_instance, calc_offset, calc_result, calcPc>>

secVars == <<sections, section_direct_children_mapper, full_heirarchy, missing_ids,
             resolved_section_heirarchy, section_to_incremental_id_mapper, secPc>>

orderVars == <<element_span_info_list, ordered_element_span_info_list, orderPc>>

rrVars == <<clients, rr_index, lock, client, granted, rrPc>>

dispatchVars == <<CONCURRENT_SIZE, sem_value, chunkTasks, attempt_number, saved_parts, gatherPc>>

elemVars == <<listing_sections, section_elements, elem_heirarchy_mapper,
              element_to_incremental_id_mapper, collected_ids, elemPc>>

substVars == <<placeholder_kind, subst_content, matching_values, new_content, substPc>>

lateVars == <<elemVars, substVars>>
tailVars == <<orderVars, rrVars, dispatchVars, lateVars>>
restVars == <<calcVars, secVars, tailVars>>
notCalcVars == <<mergeVars, asmVars, secVars, tailVars>>
notSecVars == <<mergeVars, asmVars, calcVars, tailVars>>
notOrderVars == <<mergeVars, asmVars, calcVars, secVars, rrVars, dispatchVars, lateVars>>
notRRVars == <<mergeVars, asmVars, calcVars, secVars, orderVars, dispatchVars, lateVars>>
notDispatchVars == <<mergeVars, asmVars, calcVars, secVars, orderVars, rrVars, lateVars>>
notDispatchRRVars == <<mergeVars, asmVars, calcVars, secVars, orderVars, lateVars>>
earlyVars == <<mergeVars, asmVars, calcVars, secVars, orderVars, rrVars, dispatchVars>>
notElemVars == <<earlyVars, substVars>>
notSubstVars == <<earlyVars, elemVars>>

vars == <<mergeVars, asmVars, restVars>>

(***************************************************************************)
(* Bounds                                                                  *)
(***************************************************************************)
MaxSplits == 4
MaxElements == 2
MaxPages == 3
MaxSections == 3

(***************************************************************************)
(* Spans and page bounds                                                   *)
(***************************************************************************)
Range(seq) == {seq[i] : i \in DOMAIN seq}
Min(S) == CHOOSE x \in S : \A y \in S : x <= y
Max(S) == CHOOSE x \in S : \A y \in S : x >= y

DocumentSpan(offset, length) == [offset |-> offset, length |-> length]
SpanBounds(offset, end) == [offset |-> offset, end |-> end]

\* elementTools.py:44-46
is_span_in_span_overlap(span, parent_span) ==
    /\ span.offset < parent_span.offset + parent_span.length
    /\ parent_span.offset < span.offset + span.length
is_span_in_span(span, parent_span) ==
    /\ span.offset >= parent_span.offset
    /\ (span.offset + span.length) <= (parent_span.offset + parent_span.length)

document_span_to_span_bounds(span) == SpanBounds(span.offset, span.offset + span.length)

get_min_and_max_span_bounds(spans) ==
    SpanBounds(Min({s.offset : s \in Range(spans)}),
               Max({s.offset + s.length : s \in Range(spans)}))

\* A DocumentPage: its number, its spans, and the end of the span of its last
\* word (page.words[-1].span), -1 when the page has no words.
DocumentPage(page_number, spans, last_word_end) ==
    [page_number |-> page_number, spans |-> spans, last_word_end |-> last_word_end]

\* pageProcessor.py:343-349
max_bound_across_elements(page) ==
    Max({get_min_and_max_span_bounds(page.spans).end, page.last_word_end})

\* pageProcessor.py:341, 354: the start assigned in the k-th iteration
page_start_span(pgs, k) ==
    IF k = 1 THEN 0 ELSE max_bound_across_elements(pgs[k - 1]) + 1

\* pageProcessor.py:350-353: a later page with the same number overwrites the entry
page_span_bounds(pgs) ==
    [n \in {pgs[k].page_number : k \in DOMAIN pgs} |->
        LET k == Max({j \in DOMAIN pgs : pgs[j].page_number = n})
        IN  SpanBounds(page_start_span(pgs, k), max_bound_across_elements(pgs[k]))]

\* pageProcessor.py:356-362: the entries are visited in insertion order
RECURSIVE GapFrom(_, _, _)
GapFrom(pgs, positions, last_end_span) ==
    IF positions = {} THEN FALSE
    ELSE LET k == Min(positions)
             span_bounds == page_span_bounds(pgs)[pgs[k].page_number]
         IN  \/ span_bounds.offset # last_end_span + 1
             \/ GapFrom(pgs, positions \ {k}, span_bounds.end)

HasPageSpanGap(pgs) ==
    GapFrom(pgs, {k \in DOMAIN pgs : \A j \in 1..(k - 1) : pgs[j].page_number # pgs[k].page_number},
            0 - 1)

\* pageProcessor.py:299-303
PageSpanCalculator(pgs) ==
    [page_span_bounds |-> page_span_bounds(pgs),
     doc_end_span |-> page_span_bounds(pgs)[Max(DOMAIN page_span_bounds(pgs))].end]

\* pageProcessor.py:320-324
PagesContaining(calculator, span_start_offset) ==
    {n \in DOMAIN calculator.page_span_bounds :
        /\ calculator.page_span_bounds[n].offset <= span_start_offset
        /\ calculator.page_span_bounds[n].end >= span_start_offset}

\* pageProcessor.py:316-319: no ValueError, and min() has something to choose from
StartPageDetermined(calculator, span_start_offset) ==
    /\ span_start_offset <= calculator.doc_end_span
    /\ PagesContaining(calculator, span_start_offset) # {}

\* pageProcessor.py:305-325
determine_span_start_page(calculator, span_start_offset) ==
    Min(PagesContaining(calculator, span_start_offset))

(***************************************************************************)
(* Elements                                                                *)
(***************************************************************************)
SkippableTypes == {"DocumentKeyValuePair", "DocumentParagraph", "DocumentLine", "DocumentWord"}

\* every type with the same priority
priority_mapper_flat(type) == 0

\* docIntelligElementTools.py:126-137
priority_mapper(type) ==
    CASE type = "DocumentPage" -> 0
      [] type = "DocumentSection" -> 1
      [] type \in {"DocumentTable", "DocumentFigure", "Document", "DocumentKeyValuePair"} -> 2
      [] type = "DocumentParagraph" -> 3
      [] type \in {"DocumentLine", "DocumentSelectionMark"} -> 4
      [] type = "DocumentWord" -> 5

\* docIntelligElementTools.py:200-209, 243: the order in which the pre-pass
\* collects the element types (sorted() is stable)
PrePassRank(type) ==
    CASE type = "DocumentPage" -> 1
      [] type = "DocumentSection" -> 2
      [] type = "DocumentParagraph" -> 3
      [] type = "DocumentTable" -> 4
      [] type = "DocumentFigure" -> 5
      [] type = "DocumentList" -> 6
      [] type = "DocumentKeyValuePair" -> 7
      [] type = "Document" -> 8
      [] type = "DocumentLine" -> 9
      [] type = "DocumentWord" -> 10
      [] type = "DocumentSelectionMark" -> 11

NoSection == <<>>

\* docIntelligElementTools.py:141-146
SortKey(start_page, bounds, type) ==
    <<start_page, bounds.offset, priority_mapper(type), 0 - bounds.end>>

\* An ElementInfo (docIntelligElementTools.py:231-239, 262).  page_idx is the
\* position in pages of a DocumentPage element (0 otherwise).  result,
\* placeholders and matched say what the element's processor does with it: the
\* units it returns or the exception it raises, the number of ":formula:"
\* placeholders in its content and the number of formulas inside its spans.
ElementInfo(type, spans, page_idx, section_id, result, placeholders, matched) ==
    LET bounds == get_min_and_max_span_bounds(spans)
        start_page == determine_span_start_page(page_span_calculator, bounds.offset)
    IN  [type |-> type, spans |-> spans, page_idx |-> page_idx,
         full_span_bounds |-> bounds, start_page_number |-> start_page,
         key |-> SortKey(start_page, bounds, type),
         section_heirarchy_incremental_id |-> section_id,
         result |-> result, placeholders |-> placeholders, matched |-> matched]

KeyLess(a, b) ==
    \E i \in 1..4 : a[i] < b[i] /\ \A j \in 1..(i - 1) : a[j] = b[j]

\* el may directly follow an element with key k and type t in the sorted list
SortedAfter(k, t, el) ==
    \/ KeyLess(k, el.key)
    \/ k = el.key /\ PrePassRank(t) <= PrePassRank(el.type)

(***************************************************************************)
(* Inputs of process_analyze_result                                        *)
(***************************************************************************)
\* page layouts: one page, two pages, and two pages carrying the same number
PageSpanOne == DocumentSpan(0, 2)
PageSpanTwo == DocumentSpan(3, 2)
PageLayouts ==
    { <<DocumentPage(1, <<PageSpanOne>>, 0 - 1)>>,
      <<DocumentPage(1, <<PageSpanOne>>, 0 - 1), DocumentPage(2, <<PageSpanTwo>>, 0 - 1)>>,
      <<DocumentPage(1, <<PageSpanOne>>, 0 - 1), DocumentPage(1, <<PageSpanTwo>>, 0 - 1)>> }

\* doc_page_imgs: None, or a dict with these keys
NoPageImgs == [given |-> FALSE, keys |-> {}]
PageImgChoices == {NoPageImgs, [given |-> TRUE, keys |-> {1}], [given |-> TRUE, keys |-> {1, 2}]}

Span(offset, length) == <<DocumentSpan(offset, length)>>

\* the elements of the ordered list: type and spans
TableShapes == {<<"DocumentTable", Span(0, 2)>>, <<"DocumentTable", Span(2, 2)>>}
FigureShapes == {<<"DocumentFigure", Span(0, 2)>>}
KeyValuePairShapes == {<<"DocumentKeyValuePair", Span(1, 1)>>}
ParagraphShapes ==
    {<<"DocumentParagraph", sp>> :
        sp \in {Span(1, 2), Span(1, 1), Span(2, 2), Span(3, 1), Span(1, 1) \o Span(3, 1)}}
LineShapes == {<<"DocumentLine", Span(1, 1)>>, <<"DocumentLine", Span(3, 1)>>}
WordShapes == {<<"DocumentWord", Span(1, 1)>>, <<"DocumentWord", Span(3, 1)>>}

\* what a unit producer may do: (result, placeholders, matched)
ProducerBehaviours(type) ==
    IF type \in {"DocumentTable", "DocumentParagraph"}
    THEN {<<"units", 0, 0>>, <<"units", 1, 1>>, <<"units", 1, 0>>, <<"raise", 0, 0>>}
    ELSE {<<"units", 0, 0>>}

\* docIntelligElementTools.py:231-233: the pre-pass finds a start page for
\* every element of the list
OnSomePage(spans) ==
    StartPageDetermined(page_span_calculator, get_min_and_max_span_bounds(spans).offset)

ShapeElements(shapes) ==
    UNION {{ElementInfo(sh[1], sh[2], 0, NoSection, b[1], b[2], b[3]) :
                b \in ProducerBehaviours(sh[1])} : sh \in {x \in shapes : OnSomePage(x[2])}}
ContentElements ==
    ShapeElements(TableShapes \cup FigureShapes \cup KeyValuePairShapes
                  \cup ParagraphShapes \cup LineShapes \cup WordShapes)
\* sectionProcessor.py:95-123: a section without numbering (the section of the
\* whole document) returns no unit and formats nothing
SectionBehaviours ==
    {<<(<<1>>), "units">>, <<(<<1>>), "empty">>, <<(<<1>>), "raise">>, <<NoSection, "empty">>}
SectionElements ==
    {ElementInfo("DocumentSection", sp, 0, b[1], b[2], 0, 0) :
        sp \in {x \in {Span(0, 2)} : OnSomePage(x)}, b \in SectionBehaviours}
SelectionMarkElements ==
    {ElementInfo("DocumentSelectionMark", sp, 0, NoSection, "empty", 0, 0) :
        sp \in {x \in {Span(1, 1)} : OnSomePage(x)}}
UnsupportedElements ==
    {ElementInfo("Document", sp, 0, NoSection, "raise", 0, 0) :
        sp \in {x \in {Span(0, 2)} : OnSomePage(x)}}
PageElements ==
    {ElementInfo("DocumentPage", pages[k].spans, k, NoSection, r, 0, 0) :
        k \in {j \in DOMAIN pages : OnSomePage(pages[j].spans)}, r \in {"units", "raise_export", "raise_start"}}

NoElement ==
    [type |-> "None", spans |-> <<>>, key |-> <<0, 0, 0, 0>>,
     section_heirarchy_incremental_id |-> NoSection, disposition |-> "none"]
Handled(el, disposition) ==
    [type |-> el.type, spans |-> el.spans, key |-> el.key,
     section_heirarchy_incremental_id |-> el.section_heirarchy_incremental_id,
     disposition |-> disposition]

AsmIdle ==
    /\ on_error = "ignore"
    /\ pages = <<>>
    /\ page_span_calculator = <<>>
    /\ doc_page_imgs = NoPageImgs
    /\ element_idx = 0
    /\ current = NoElement
    /\ lastError = "none"
    /\ full_output_list = <<>>
    /\ transformed_page_imgs = {}
    /\ current_page_info = 0
    /\ current_section_heirarchy_incremental_id = NoSection
    /\ current_page_priority_spans = {}
    /\ unprocessed_element_counter = [t \in {"Document"} |-> 0]
    /\ asmPc = "idle"

CalcIdle ==
    /\ calc_pages = <<>>
    /\ calc_instance = <<>>
    /\ calc_offset = 0
    /\ calc_result = 0
    /\ calcPc = "idle"

SecIdle ==
    /\ sections = <<>>
    /\ section_direct_children_mapper = <<>>
    /\ full_heirarchy = <<>>
    /\ missing_ids = {}
    /\ resolved_section_heirarchy = <<>>
    /\ section_to_incremental_id_mapper = <<>>
    /\ secPc = "idle"

OrderIdle ==
    /\ element_span_info_list = <<>>
    /\ ordered_element_span_info_list = <<>>
    /\ orderPc = "idle"

RRIdle ==
    /\ clients = <<>>
    /\ rr_index = 0
    /\ lock = 0
    /\ client = <<>>
    /\ granted = <<>>
    /\ rrPc = <<>>

DispatchIdle ==
    /\ CONCURRENT_SIZE = 0
    /\ sem_value = 0
    /\ chunkTasks = <<>>
    /\ attempt_number = <<>>
    /\ saved_parts = {}
    /\ gatherPc = "idle"

ElemIdle ==
    /\ listing_sections = <<>>
    /\ section_elements = <<>>
    /\ elem_heirarchy_mapper = <<>>
    /\ element_to_incremental_id_mapper = <<>>
    /\ collected_ids = <<>>
    /\ elemPc = "idle"

SubstIdle ==
    /\ placeholder_kind = "none"
    /\ subst_content = <<>>
    /\ matching_values = <<>>
    /\ new_content = <<>>
    /\ substPc = "idle"

LateIdle == ElemIdle /\ SubstIdle
TailIdle == OrderIdle /\ RRIdle /\ DispatchIdle /\ LateIdle
RestIdle == CalcIdle /\ SecIdle /\ TailIdle

MergeIdle ==
    /\ splitResult = <<>>
    /\ index = 0
    /\ mergedChunkList = <<>>
    /\ combinedTokens = 0
    /\ combinedContent = <<>>
    /\ mergePc = "idle"

(***************************************************************************)
(* mergeSpitsIntoChunk                                                     *)
(***************************************************************************)
SPIPPETS_SIZE == 600
CHUNK_MIN_SIZE == 1000
CHUNK_MAX_SIZE == 1400

\* token counts a split may have: below SNIPPET, at SNIPPET, between SNIPPET
\* and MIN, at MIN, above MAX
TokenValues == {300, 500, 600, 900, 1000, 2000}

\* A content string is a sequence of items: the text of split i, or the "\n"
\* the merger inserts.
Text(i) == [k |-> "text", i |-> i]
NL == [k |-> "nl", i |-> 0]

\* SplitResult(tokens, content) of the split at 0-based position i
SplitTokens(i) == splitResult[i + 1]
SplitContent(i) == <<Text(i + 1)>>

MergedChunk(splits, totalTokens) == [splits |-> splits, totalTokens |-> totalTokens]

\* line 67: the split is kept as a chunk of its own
IsKeptAsIsMax(tokens) == CHUNK_MAX_SIZE <= tokens
IsKeptAsIs(tokens) == CHUNK_MIN_SIZE <= tokens

\* line 77: the inner loop examines the next split
LoopExaminesAlways(total, idx) == idx < Len(splitResult)
LoopExamines(total, idx) == total < CHUNK_MAX_SIZE /\ idx < Len(splitResult)

\* line 83: total already includes cur
IsIncludedNoSnippet(total, cur) == total < CHUNK_MAX_SIZE
IsIncluded(total, cur) ==
    \/ total < CHUNK_MAX_SIZE
    \/ cur < SPIPPETS_SIZE
    \/ (total - cur) < SPIPPETS_SIZE

\* line 85
AppendSplitNoSeparatorDropped(content, i) == content
AppendSplit(content, i) == content \o <<NL>> \o SplitContent(i)

InitMerge ==
    /\ splitResult \in UNION {[1..n -> TokenValues] : n \in 0..MaxSplits}
    /\ index = 0
    /\ mergedChunkList = <<>>
    /\ combinedTokens = 0
    /\ combinedContent = <<>>
    /\ mergePc = "outer"
    /\ AsmIdle
    /\ RestIdle

\* lines 67-70
KeepAsIs ==
    /\ mergePc = "outer"
    /\ index < Len(splitResult)
    /\ IsKeptAsIs(SplitTokens(index))
    /\ mergedChunkList' = Append(mergedChunkList,
                                 MergedChunk(SplitContent(index), SplitTokens(index)))
    /\ index' = index + 1
    /\ UNCHANGED <<splitResult, combinedTokens, combinedContent, mergePc, asmVars, restVars>>

\* lines 72-75
StartCombine ==
    /\ mergePc = "outer"
    /\ index < Len(splitResult)
    /\ ~IsKeptAsIs(SplitTokens(index))
    /\ combinedTokens' = SplitTokens(index)
    /\ combinedContent' = SplitContent(index)
    /\ index' = index + 1
    /\ mergePc' = "inner"
    /\ UNCHANGED <<splitResult, mergedChunkList, asmVars, restVars>>

\* lines 77-86: one iteration that keeps the split
CombineInclude ==
    /\ mergePc = "inner"
    /\ LoopExamines(combinedTokens, index)
    /\ IsIncluded(combinedTokens + SplitTokens(index), SplitTokens(index))
    /\ combinedTokens' = combinedTokens + SplitTokens(index)
    /\ combinedContent' = AppendSplit(combinedContent, index)
    /\ index' = index + 1
    /\ UNCHANGED <<splitResult, mergedChunkList, mergePc, asmVars, restVars>>

\* lines 77-83, 87-93: one iteration that backs the split out, then closes the chunk
CombineBackOut ==
    /\ mergePc = "inner"
    /\ LoopExamines(combinedTokens, index)
    /\ ~IsIncluded(combinedTokens + SplitTokens(index), SplitTokens(index))
    /\ mergedChunkList' = Append(mergedChunkList,
            MergedChunk(combinedContent,
                        (combinedTokens + SplitTokens(index)) - SplitTokens(index)))
    /\ mergePc' = "outer"
    /\ UNCHANGED <<splitResult, index, combinedTokens, combinedContent, asmVars, restVars>>

\* lines 77, 92-93: the loop condition fails, the chunk is closed
CloseCombined ==
    /\ mergePc = "inner"
    /\ ~LoopExamines(combinedTokens, index)
    /\ mergedChunkList' = Append(mergedChunkList, MergedChunk(combinedContent, combinedTokens))
    /\ mergePc' = "outer"
    /\ UNCHANGED <<splitResult, index, combinedTokens, combinedContent, asmVars, restVars>>

\* line 60: the outer loop ends
EndOfSplits ==
    /\ mergePc = "outer"
    /\ index >= Len(splitResult)
    /\ mergePc' = "final"
    /\ UNCHANGED <<splitResult, index, mergedChunkList, combinedTokens, combinedContent, asmVars, restVars>>

Front(s) == SubSeq(s, 1, Len(s) - 1)
Last(s) == s[Len(s)]

\* lines 98-101: the last chunk is folded into the one before it
MergeBackDropsContent(secondLast, last) ==
    MergedChunk(secondLast.splits, secondLast.totalTokens + last.totalTokens)
MergeBack(secondLast, last) ==
    MergedChunk(secondLast.splits \o last.splits, secondLast.totalTokens + last.totalTokens)

\* line 97
NeedsMergeBackNever(last) == FALSE
NeedsMergeBack(last) == last.totalTokens < CHUNK_MIN_SIZE

\* line 96 on an empty list: list.pop() raises IndexError
FinalPopEmpty ==
    /\ mergePc = "final"
    /\ mergedChunkList = <<>>
    /\ mergePc' = "error"
    /\ UNCHANGED <<splitResult, index, mergedChunkList, combinedTokens, combinedContent, asmVars, restVars>>

\* lines 96-97, 103: the popped last chunk is big enough.  The code pops it and
\* never appends it again, so the returned list lacks it.
FinalKeep ==
    /\ mergePc = "final"
    /\ mergedChunkList # <<>>
    /\ ~NeedsMergeBack(Last(mergedChunkList))
    /\ mergedChunkList' = Front(mergedChunkList)
    /\ mergePc' = "done"
    /\ UNCHANGED <<splitResult, index, combinedTokens, combinedContent, asmVars, restVars>>

\* lines 96-101, 103
FinalMergeBack ==
    /\ mergePc = "final"
    /\ Len(mergedChunkList) >= 2
    /\ NeedsMergeBack(Last(mergedChunkList))
    /\ mergedChunkList' = Append(Front(Front(mergedChunkList)),
            MergeBack(Last(Front(mergedChunkList)), Last(mergedChunkList)))
    /\ mergePc' = "done"
    /\ UNCHANGED <<splitResult, index, combinedTokens, combinedContent, asmVars, restVars>>

\* lines 96-98: the only chunk is undersized, the second pop raises IndexError
FinalMergeBackPopEmpty ==
    /\ mergePc = "final"
    /\ Len(mergedChunkList) = 1
    /\ NeedsMergeBack(Last(mergedChunkList))
    /\ mergedChunkList' = <<>>
    /\ mergePc' = "error"
    /\ UNCHANGED <<splitResult, index, combinedTokens, combinedContent, asmVars, restVars>>

NextMerge ==
    \/ KeepAsIs
    \/ StartCombine
    \/ CombineInclude
    \/ CombineBackOut
    \/ CloseCombined
    \/ EndOfSplits
    \/ FinalPopEmpty
    \/ FinalKeep
    \/ FinalMergeBack
    \/ FinalMergeBackPopEmpty

SpecMerge == InitMerge /\ [][NextMerge]_vars

(***************************************************************************)
(* process_analyze_result                                                  *)
(***************************************************************************)
InitAsm ==
    /\ on_error \in {"ignore", "raise"}
    /\ pages \in PageLayouts
    /\ page_span_calculator = <<>>
    /\ doc_page_imgs \in PageImgChoices
    /\ element_idx = 0
    /\ current = NoElement
    /\ lastError = "none"
    /\ full_output_list = <<>>
    /\ transformed_page_imgs = {}
    /\ current_page_info = 0
    /\ current_section_heirarchy_incremental_id = NoSection
    /\ current_page_priority_spans = {}
    /\ unprocessed_element_counter = [t \in {"Document"} |-> 0]
    /\ asmPc = "start"
    /\ MergeIdle
    /\ RestIdle

\* lines 130-133
PageImgKeysMismatch ==
    /\ doc_page_imgs.given
    /\ doc_page_imgs.keys # {pages[k].page_number : k \in DOMAIN pages}

\* lines 130-140: the page image keys differ from the page numbers
RaiseImageKeyMismatch ==
    /\ asmPc = "start"
    /\ PageImgKeysMismatch
    /\ lastError' = "image_keys"
    /\ asmPc' = "raised"
    /\ UNCHANGED <<on_error, pages, page_span_calculator, doc_page_imgs, element_idx, current, full_output_list,
                   transformed_page_imgs, current_page_info,
                   current_section_heirarchy_incremental_id, current_page_priority_spans,
                   unprocessed_element_counter, mergeVars, restVars>>

\* line 147: PageSpanCalculator(analyze_result) raises on a gap
RaisePageSpanGap ==
    /\ asmPc = "start"
    /\ ~PageImgKeysMismatch
    /\ HasPageSpanGap(pages)
    /\ lastError' = "page_gap"
    /\ asmPc' = "raised"
    /\ UNCHANGED <<on_error, pages, page_span_calculator, doc_page_imgs, element_idx, current, full_output_list,
                   transformed_page_imgs, current_page_info,
                   current_section_heirarchy_incremental_id, current_page_priority_spans,
                   unprocessed_element_counter, mergeVars, restVars>>

\* lines 130-169: the checks pass, the rolling state is initialised
StartLoop ==
    /\ asmPc = "start"
    /\ ~PageImgKeysMismatch
    /\ ~HasPageSpanGap(pages)
    /\ page_span_calculator' = PageSpanCalculator(pages)
    /\ asmPc' = "loop"
    /\ UNCHANGED <<on_error, pages, doc_page_imgs, element_idx, current, lastError,
                   full_output_list, transformed_page_imgs, current_page_info,
                   current_section_heirarchy_incremental_id, current_page_priority_spans,
                   unprocessed_element_counter, mergeVars, restVars>>

\* The ElementInfo of the page at position k of pages
PageInfo(k) == ElementInfo("DocumentPage", pages[k].spans, k, NoSection, "units", 0, 0)

\* The pages the consumed prefix of the ordered list holds: the list is sorted
\* and holds every page, so these are the pages whose key is not above the key
\* of the element handled last.
ConsumedPages ==
    IF element_idx = 0 THEN {}
    ELSE {k \in DOMAIN pages : ~KeyLess(current.key, PageInfo(k).key)}

\* el can be the next element of ordered_element_span_info_list
\* (docIntelligElementTools.py:139-147 sorted it; lines 231-233 gave it a page)
MayComeNext(el) ==
    /\ \/ element_idx = 0
       \/ SortedAfter(current.key, current.type, el)
    /\ IF el.type = "DocumentPage"
       THEN /\ el.page_idx \notin ConsumedPages
            /\ \A j \in (DOMAIN pages \ ConsumedPages) \ {el.page_idx} :
                    ~KeyLess(PageInfo(j).key, el.key)
       ELSE /\ \A j \in DOMAIN pages \ ConsumedPages :
                    KeyLess(el.key, PageInfo(j).key)
            /\ element_idx - Cardinality(ConsumedPages) < MaxElements

\* lines 174-190
span_already_processed(el) ==
    /\ el.type \in SkippableTypes
    /\ \E i \in DOMAIN el.spans : \E processed_span \in current_page_priority_spans :
            is_span_in_span(el.spans[i], processed_span)

\* lines 194-198
page_changed(el) ==
    /\ current_page_info # 0
    /\ el.start_page_number > PageInfo(current_page_info).start_page_number

\* a HaystackDocument: the metadata the processors put on it, and the spans
\* of the element it was made from
OutputUnit(el, page_location, section_heirarchy) ==
    [element_type |-> el.type, page_location |-> page_location, spans |-> el.spans,
     page_number |-> el.start_page_number, section_heirarchy |-> section_heirarchy]

\* pageProcessor.py:135-173 and 175-212
convert_page_start(page_info, section_heirarchy) ==
    <<OutputUnit(page_info, "start", section_heirarchy)>>
convert_page_end(page_info, section_heirarchy) ==
    <<OutputUnit(page_info, "end", section_heirarchy)>>

\* a processor that would record the element's own numbering tuple
ConvertedUnitsOwnSection(el, section_heirarchy) ==
    IF el.result = "units"
    THEN <<OutputUnit(el, "", el.section_heirarchy_incremental_id)>>
    ELSE <<>>

\* the units a processor returns for el
ConvertedUnits(el, section_heirarchy) ==
    IF el.result = "units" THEN <<OutputUnit(el, "", section_heirarchy)>> ELSE <<>>

\* lines 199-207
OutputAfterPageCheck(el) ==
    IF page_changed(el)
    THEN full_output_list \o convert_page_end(PageInfo(current_page_info),
                                              current_section_heirarchy_incremental_id)
    ELSE full_output_list

\* lines 209-214
PrunedSpans(spans, page_info) ==
    {span \in spans :
        document_span_to_span_bounds(span).offset > page_info.full_span_bounds.end}

\* the same, with the element's own spans claimed at once
SpansAfterPageCheckClaiming(el) ==
    (IF page_changed(el)
     THEN PrunedSpans(current_page_priority_spans, PageInfo(current_page_info))
     ELSE current_page_priority_spans) \cup Range(el.spans)

SpansAfterPageCheck(el) ==
    IF page_changed(el)
    THEN PrunedSpans(current_page_priority_spans, PageInfo(current_page_info))
    ELSE current_page_priority_spans

\* elementTools.py:185-187 and 86-89: the placeholder count is compared with
\* the matched count only when the content holds a placeholder
PlaceholderMismatch(el) == el.placeholders > 0 /\ el.placeholders # el.matched

\* The exception the processing of el raises inside the try block, "none" if none.
\* Page: doc_page_imgs[...] (line 232) or export_page_img or convert_page_start;
\* Figure: transformed_page_imgs[start_page_number] (line 264).
ProcessingError(el) ==
    CASE el.type = "DocumentPage" ->
            IF \/ ~doc_page_imgs.given
               \/ pages[el.page_idx].page_number \notin doc_page_imgs.keys
               \/ el.result \in {"raise_export", "raise_start"}
            THEN "processing" ELSE "none"
      [] el.type = "Document" -> "unsupported"
      [] el.type = "DocumentSelectionMark" -> "none"
      [] el.type = "DocumentSection" -> IF el.result = "raise" THEN "processing" ELSE "none"
      [] el.type = "DocumentFigure" /\ el.start_page_number \notin transformed_page_imgs ->
            "processing"
      [] OTHER ->
            IF PlaceholderMismatch(el) THEN "placeholder_mismatch"
            ELSE IF el.result = "raise" THEN "processing" ELSE "none"

\* line 248 is reached although the page raised: convert_page_start failed after
\* lines 230-238 stored the image and the page
PageStoredBeforeError(el) ==
    /\ el.type = "DocumentPage"
    /\ doc_page_imgs.given
    /\ pages[el.page_idx].page_number \in doc_page_imgs.keys
    /\ el.result = "raise_start"

\* lines 337-342
AfterErrorAlwaysRaise(policy) == "raised"
AfterErrorNeverRaise(policy) == "loop"
AfterError(policy) == IF policy = "raise" THEN "raised" ELSE "loop"

\* lines 174-192: a low-priority element whose content is already claimed
SkipElement ==
    /\ asmPc = "loop"
    /\ \E el \in ContentElements :
        /\ MayComeNext(el)
        /\ span_already_processed(el)
        /\ current' = Handled(el, "skipped")
    /\ element_idx' = element_idx + 1
    /\ lastError' = "none"
    /\ UNCHANGED <<on_error, pages, page_span_calculator, doc_page_imgs, full_output_list, transformed_page_imgs,
                   current_page_info, current_section_heirarchy_incremental_id,
                   current_page_priority_spans, unprocessed_element_counter, asmPc, mergeVars, restVars>>

\* lines 193-227
ProcessSection ==
    /\ asmPc = "loop"
    /\ \E el \in SectionElements :
        /\ MayComeNext(el)
        /\ ProcessingError(el) = "none"
        /\ current_section_heirarchy_incremental_id' = el.section_heirarchy_incremental_id
        /\ full_output_list' = OutputAfterPageCheck(el)
                \o ConvertedUnits(el, el.section_heirarchy_incremental_id)
        /\ current_page_priority_spans' = SpansAfterPageCheck(el)
        /\ current' = Handled(el, "section")
    /\ element_idx' = element_idx + 1
    /\ lastError' = "none"
    /\ UNCHANGED <<on_error, pages, page_span_calculator, doc_page_imgs, transformed_page_imgs, current_page_info,
                   unprocessed_element_counter, asmPc, mergeVars, restVars>>

\* lines 193-214, 228-248
ProcessPage ==
    /\ asmPc = "loop"
    /\ \E el \in PageElements :
        /\ MayComeNext(el)
        /\ ProcessingError(el) = "none"
        /\ transformed_page_imgs' = transformed_page_imgs \cup {pages[el.page_idx].page_number}
        /\ current_page_info' = el.page_idx
        /\ full_output_list' = OutputAfterPageCheck(el)
                \o convert_page_start(el, current_section_heirarchy_incremental_id)
        /\ current_page_priority_spans' = SpansAfterPageCheck(el)
        /\ current' = Handled(el, "page")
    /\ element_idx' = element_idx + 1
    /\ lastError' = "none"
    /\ UNCHANGED <<on_error, pages, page_span_calculator, doc_page_imgs, current_section_heirarchy_incremental_id,
                   unprocessed_element_counter, asmPc, mergeVars, restVars>>

\* lines 193-214, 272-275
ProcessSelectionMark ==
    /\ asmPc = "loop"
    /\ \E el \in SelectionMarkElements :
        /\ MayComeNext(el)
        /\ full_output_list' = OutputAfterPageCheck(el)
        /\ current_page_priority_spans' = SpansAfterPageCheck(el)
        /\ current' = Handled(el, "selection_mark")
    /\ element_idx' = element_idx + 1
    /\ lastError' = "none"
    /\ UNCHANGED <<on_error, pages, page_span_calculator, doc_page_imgs, transformed_page_imgs, current_page_info,
                   current_section_heirarchy_incremental_id, unprocessed_element_counter,
                   asmPc, mergeVars, restVars>>

\* lines 173-214, 250-315, 325-326: a table, figure, paragraph, line, word or
\* key-value pair is converted and claims its spans
ProcessContent ==
    /\ asmPc = "loop"
    /\ \E el \in ContentElements :
        /\ MayComeNext(el)
        /\ ~span_already_processed(el)
        /\ ProcessingError(el) = "none"
        /\ full_output_list' = OutputAfterPageCheck(el)
                \o ConvertedUnits(el, current_section_heirarchy_incremental_id)
        /\ current_page_priority_spans' = SpansAfterPageCheck(el) \cup Range(el.spans)
        /\ current' = Handled(el, "processed")
    /\ element_idx' = element_idx + 1
    /\ lastError' = "none"
    /\ UNCHANGED <<on_error, pages, page_span_calculator, doc_page_imgs, transformed_page_imgs, current_page_info,
                   current_section_heirarchy_incremental_id, unprocessed_element_counter,
                   asmPc, mergeVars, restVars>>

\* lines 172-214, 337-342: the processing of the element raises inside the try
\* block; what lines 199-238 did before the exception stays done
ElementFails ==
    /\ asmPc = "loop"
    /\ \E el \in ContentElements \cup SectionElements \cup PageElements :
        /\ MayComeNext(el)
        /\ ~span_already_processed(el)
        /\ ProcessingError(el) \in {"processing", "placeholder_mismatch"}
        /\ lastError' = ProcessingError(el)
        /\ full_output_list' = OutputAfterPageCheck(el)
        /\ current_page_priority_spans' = SpansAfterPageCheck(el)
        /\ current_section_heirarchy_incremental_id' =
                IF el.type = "DocumentSection" THEN el.section_heirarchy_incremental_id
                ELSE current_section_heirarchy_incremental_id
        /\ transformed_page_imgs' =
                IF PageStoredBeforeError(el)
                THEN transformed_page_imgs \cup {pages[el.page_idx].page_number}
                ELSE transformed_page_imgs
        /\ current_page_info' =
                IF PageStoredBeforeError(el) THEN el.page_idx ELSE current_page_info
        /\ current' = Handled(el, "failed")
    /\ element_idx' = element_idx + 1
    /\ asmPc' = AfterError(on_error)
    /\ UNCHANGED <<on_error, pages, page_span_calculator, doc_page_imgs, unprocessed_element_counter, mergeVars, restVars>>

\* lines 319-321
CountUnprocessedNot(counter, class_name) == counter
CountUnprocessed(counter, class_name) == [counter EXCEPT ![class_name] = @ + 1]

\* lines 193-214, 318-324, 337-342: no processor for the element's class
UnsupportedElement ==
    /\ asmPc = "loop"
    /\ \E el \in UnsupportedElements :
        /\ MayComeNext(el)
        /\ lastError' = ProcessingError(el)
        /\ full_output_list' = OutputAfterPageCheck(el)
        /\ current_page_priority_spans' = SpansAfterPageCheck(el)
        /\ unprocessed_element_counter' =
                CountUnprocessed(unprocessed_element_counter, el.type)
        /\ current' = Handled(el, "failed")
    /\ element_idx' = element_idx + 1
    /\ asmPc' = AfterError(on_error)
    /\ UNCHANGED <<on_error, pages, page_span_calculator, doc_page_imgs, transformed_page_imgs, current_page_info,
                   current_section_heirarchy_incremental_id, mergeVars, restVars>>

\* lines 343-356: the list is exhausted, the final page is closed
FinalPageEnd ==
    IF current_page_info # 0
    THEN convert_page_end(PageInfo(current_page_info), current_section_heirarchy_incremental_id)
    ELSE <<>>

EndOfElements ==
    /\ asmPc = "loop"
    /\ ConsumedPages = DOMAIN pages
    /\ full_output_list' = full_output_list \o FinalPageEnd
    /\ asmPc' = "done"
    /\ UNCHANGED <<on_error, pages, page_span_calculator, doc_page_imgs, element_idx, current, lastError,
                   transformed_page_imgs, current_page_info,
                   current_section_heirarchy_incremental_id, current_page_priority_spans,
                   unprocessed_element_counter, mergeVars, restVars>>

NextAsm ==
    \/ RaiseImageKeyMismatch
    \/ RaisePageSpanGap
    \/ StartLoop
    \/ SkipElement
    \/ ProcessSection
    \/ ProcessPage
    \/ ProcessSelectionMark
    \/ ProcessContent
    \/ ElementFails
    \/ UnsupportedElement
    \/ EndOfElements

SpecAsm == InitAsm /\ [][NextAsm]_vars

(***************************************************************************)
(* PageSpanCalculator: construction and determine_span_start_page          *)
(***************************************************************************)
\* the spans a page may carry and the ends its last word may have
CalcPageSpans == {DocumentSpan(0, 2), DocumentSpan(3, 2), DocumentSpan(6, 2)}
CalcLastWordEnds == {0 - 1, 4}

\* page numbers 1..n in order, or with the last page repeating the number before it
PageNumberings(n) ==
    {[k \in 1..n |-> k]} \cup
    (IF n > 1 THEN {[k \in 1..n |-> IF k = n THEN n - 1 ELSE k]} ELSE {})

CalcLayouts ==
    UNION {{[k \in 1..n |-> DocumentPage(num[k], <<sp[k]>>, we[k])] :
                num \in PageNumberings(n), sp \in [1..n -> CalcPageSpans],
                we \in [1..n -> CalcLastWordEnds]} : n \in 1..MaxPages}

InitCalc ==
    /\ calc_pages \in CalcLayouts
    /\ calc_instance = <<>>
    /\ calc_offset = 0
    /\ calc_result = 0
    /\ calcPc = "new"
    /\ MergeIdle
    /\ AsmIdle
    /\ SecIdle
    /\ TailIdle

\* pageProcessor.py:299-303, 327-364: the constructor returns
Construct ==
    /\ calcPc = "new"
    /\ ~HasPageSpanGap(calc_pages)
    /\ calc_instance' = PageSpanCalculator(calc_pages)
    /\ calcPc' = "built"
    /\ UNCHANGED <<calc_pages, calc_offset, calc_result, notCalcVars>>

\* pageProcessor.py:356-362: the constructor raises ValueError
ConstructRaises ==
    /\ calcPc = "new"
    /\ HasPageSpanGap(calc_pages)
    /\ calcPc' = "gap_error"
    /\ UNCHANGED <<calc_pages, calc_instance, calc_offset, calc_result, notCalcVars>>

\* the offsets asked for: every offset of the document and a few beyond its end
QueryOffsets == 0..(Max({calc_instance.page_span_bounds[n].end : n \in DOMAIN calc_instance.page_span_bounds}) + 2)

\* pageProcessor.py:305-325: a page is returned
DetermineStartPage ==
    /\ calcPc \in {"built", "answered", "range_error"}
    /\ \E x \in QueryOffsets :
        /\ StartPageDetermined(calc_instance, x)
        /\ calc_offset' = x
        /\ calc_result' = determine_span_start_page(calc_instance, x)
    /\ calcPc' = "answered"
    /\ UNCHANGED <<calc_pages, calc_instance, notCalcVars>>

\* pageProcessor.py:316-319: the offset lies beyond the document's end
DetermineRaisesRange ==
    /\ calcPc \in {"built", "answered", "range_error"}
    /\ \E x \in QueryOffsets :
        /\ x > calc_instance.doc_end_span
        /\ calc_offset' = x
    /\ calc_result' = 0
    /\ calcPc' = "range_error"
    /\ UNCHANGED <<calc_pages, calc_instance, notCalcVars>>

NextCalc ==
    \/ Construct
    \/ ConstructRaises
    \/ DetermineStartPage
    \/ DetermineRaisesRange

SpecCalc == InitCalc /\ [][NextCalc]_vars

(***************************************************************************)
(* Section hierarchy and incremental numbering                             *)
(***************************************************************************)
\* a dict updated with another one: the entries of the second win
DictUpdate(d, e) == [k \in DOMAIN d \cup DOMAIN e |-> IF k \in DOMAIN e THEN e[k] ELSE d[k]]

\* the child section ids a section may list: none, itself, one or two others
ChildLists(ids, id) ==
    {<<>>, <<id>>} \cup {<<a>> : a \in ids \ {id}}
    \cup {p \in (ids \ {id}) \X (ids \ {id}) : p[1] # p[2]}

\* the graphs on ids in which the sections 0..k-1 have chosen their child lists
RECURSIVE GraphsOn(_, _)
GraphsOn(ids, k) ==
    IF k = 0 THEN {<<>>}
    ELSE {DictUpdate(g, [i \in {k - 1} |-> c]) :
                g \in GraphsOn(ids, k - 1), c \in ChildLists(ids, k - 1)}

SectionGraphs == UNION {GraphsOn(0..(n - 1), n) : n \in 1..MaxSections}

\* docIntelligElementTools.py:436-444
BuildChildrenMapper(secs) ==
    [section_id \in DOMAIN secs |->
        <<section_id>> \o SelectSeq(secs[section_id], LAMBDA child_id : child_id # section_id)]

\* the depth of recursion the interpreter allows: more than any chain of
\* distinct sections needs, so that only a cycle exhausts it
RecursionLimit(mapper) == Cardinality(DOMAIN mapper) + 1

\* docIntelligElementTools.py:391-413.  The result is [err, out]: err when the
\* recursion limit is exceeded (RecursionError), out the dict returned otherwise.
RECURSIVE get_section_heirarchy_branch(_, _, _)
RECURSIVE BranchFromChild(_, _, _, _, _)
BranchFromChild(mapper, current_id, i, output, depth) ==
    IF i > Len(mapper[current_id]) THEN [err |-> FALSE, out |-> output]
    ELSE LET child_id == mapper[current_id][i]
         IN  IF current_id = child_id
             THEN BranchFromChild(mapper, current_id, i + 1, output, depth)
             ELSE LET children_heirarchy ==
                          get_section_heirarchy_branch(mapper, child_id, depth - 1)
                  IN  IF children_heirarchy.err THEN children_heirarchy
                      ELSE BranchFromChild(mapper, current_id, i + 1,
                              DictUpdate(output,
                                  [parent \in DOMAIN children_heirarchy.out |->
                                      <<current_id>> \o children_heirarchy.out[parent]]),
                              depth)
get_section_heirarchy_branch(mapper, current_id, depth) ==
    IF depth = 0 THEN [err |-> TRUE, out |-> <<>>]
    ELSE BranchFromChild(mapper, current_id, 1, [k \in {current_id} |-> <<current_id>>], depth)

\* docIntelligElementTools.py:381-385: the branch of the smallest missing id
NextBranch ==
    get_section_heirarchy_branch(section_direct_children_mapper, Min(missing_ids),
                                 RecursionLimit(section_direct_children_mapper))

\* docIntelligElementTools.py:284: parent_section_heirarchy[:-1]
ParentChain(heirarchy, section_id) ==
    SubSeq(heirarchy[section_id], 1, Len(heirarchy[section_id]) - 1)

\* docIntelligElementTools.py:293-304: the incremental id given to the next
\* section seen under a parent chain that already has the entries siblings
NextIncrementalIdSame(siblings) == Cardinality(DOMAIN siblings)
NextIncrementalId(siblings) == Cardinality(DOMAIN siblings) + 1

\* docIntelligElementTools.py:282-305: parent chain -> section id -> incremental id
\* (the level of the outer dict is the length of the chain - 1)
RECURSIVE IncrementalIdTable(_, _, _)
IncrementalIdTable(heirarchy, ids, table) ==
    IF ids = {} THEN table
    ELSE LET section_id == Min(ids)
             parent_section_heirarchy == ParentChain(heirarchy, section_id)
             entry == IF parent_section_heirarchy \in DOMAIN table
                      THEN DictUpdate(table[parent_section_heirarchy],
                               [k \in {section_id} |->
                                   NextIncrementalId(table[parent_section_heirarchy])])
                      ELSE [k \in {section_id} |-> 1]
         IN  IncrementalIdTable(heirarchy, ids \ {section_id},
                 IF Len(parent_section_heirarchy) - 1 >= 0
                 THEN DictUpdate(table, [k \in {parent_section_heirarchy} |-> entry])
                 ELSE table)

\* the lookup table[chain][section_id] finds its keys
HasIncrementalId(table, chain, section_id) ==
    /\ chain \in DOMAIN table
    /\ section_id \in DOMAIN table[chain]

\* docIntelligElementTools.py:307-326: every lookup made for section_id succeeds
NumberingLookupsSucceed(heirarchy, table, section_id) ==
    LET parent_section_heirarchy == ParentChain(heirarchy, section_id)
    IN  /\ \A section_level \in 0..(Len(parent_section_heirarchy) - 2) :
                HasIncrementalId(table, SubSeq(parent_section_heirarchy, 1, section_level + 1),
                                 parent_section_heirarchy[section_level + 2])
        /\ HasIncrementalId(table, parent_section_heirarchy, section_id)

\* docIntelligElementTools.py:307-328
NumberedIdsAll(heirarchy) == DOMAIN heirarchy
NumberedIds(heirarchy) == {section_id \in DOMAIN heirarchy : section_id > 0}

convert_section_heirarchy_raises(heirarchy) ==
    \E section_id \in NumberedIds(heirarchy) :
        ~NumberingLookupsSucceed(heirarchy, IncrementalIdTable(heirarchy, DOMAIN heirarchy, <<>>),
                                 section_id)

convert_section_heirarchy_to_incremental_numbering(heirarchy) ==
    LET table == IncrementalIdTable(heirarchy, DOMAIN heirarchy, <<>>)
    IN  [section_id \in NumberedIds(heirarchy) |->
            LET parent_section_heirarchy == ParentChain(heirarchy, section_id)
            IN  [i \in 1..Len(parent_section_heirarchy) |->
                    IF i < Len(parent_section_heirarchy)
                    THEN table[SubSeq(parent_section_heirarchy, 1, i)][parent_section_heirarchy[i + 1]]
                    ELSE table[parent_section_heirarchy][section_id]]]

\* docIntelligElementTools.py:379-389: the whole loop, for a graph it terminates on
RECURSIVE ResolveAll(_, _, _)
ResolveAll(mapper, heirarchy, missing) ==
    IF missing = {} THEN heirarchy
    ELSE LET branch_heirarchy ==
                 get_section_heirarchy_branch(mapper, Min(missing), RecursionLimit(mapper)).out
         IN  ResolveAll(mapper, DictUpdate(heirarchy, branch_heirarchy),
                        DOMAIN mapper \ DOMAIN DictUpdate(heirarchy, branch_heirarchy))
get_section_heirarchy(mapper) == ResolveAll(mapper, <<>>, DOMAIN mapper)

InitSec ==
    /\ sections \in SectionGraphs
    /\ section_direct_children_mapper = <<>>
    /\ full_heirarchy = <<>>
    /\ missing_ids = {}
    /\ resolved_section_heirarchy = <<>>
    /\ section_to_incremental_id_mapper = <<>>
    /\ secPc = "start"
    /\ MergeIdle
    /\ AsmIdle
    /\ CalcIdle
    /\ TailIdle

\* docIntelligElementTools.py:434-444, 379-381
StartResolving ==
    /\ secPc = "start"
    /\ section_direct_children_mapper' = BuildChildrenMapper(sections)
    /\ missing_ids' = DOMAIN sections
    /\ secPc' = "resolving"
    /\ UNCHANGED <<sections, full_heirarchy, resolved_section_heirarchy,
                   section_to_incremental_id_mapper, notSecVars>>

\* docIntelligElementTools.py:382-388: one iteration of the while loop
ResolveBranch ==
    /\ secPc = "resolving"
    /\ missing_ids # {}
    /\ ~NextBranch.err
    /\ full_heirarchy' = DictUpdate(full_heirarchy, NextBranch.out)
    /\ missing_ids' = DOMAIN sections \ DOMAIN full_heirarchy'
    /\ UNCHANGED <<sections, section_direct_children_mapper, resolved_section_heirarchy,
                   section_to_incremental_id_mapper, secPc, notSecVars>>

\* docIntelligElementTools.py:405-409: the recursion never returns, RecursionError
ResolveBranchOverflows ==
    /\ secPc = "resolving"
    /\ missing_ids # {}
    /\ NextBranch.err
    /\ secPc' = "recursion_error"
    /\ UNCHANGED <<sections, section_direct_children_mapper, full_heirarchy, missing_ids,
                   resolved_section_heirarchy, section_to_incremental_id_mapper, notSecVars>>

\* docIntelligElementTools.py:382, 389
ReturnHeirarchy ==
    /\ secPc = "resolving"
    /\ missing_ids = {}
    /\ resolved_section_heirarchy' = full_heirarchy
    /\ secPc' = "resolved"
    /\ UNCHANGED <<sections, section_direct_children_mapper, full_heirarchy, missing_ids,
                   section_to_incremental_id_mapper, notSecVars>>

\* docIntelligElementTools.py:269-328, 348-351
ConvertNumbering ==
    /\ secPc = "resolved"
    /\ ~convert_section_heirarchy_raises(resolved_section_heirarchy)
    /\ section_to_incremental_id_mapper' =
            convert_section_heirarchy_to_incremental_numbering(resolved_section_heirarchy)
    /\ secPc' = "numbered"
    /\ UNCHANGED <<sections, section_direct_children_mapper, full_heirarchy, missing_ids,
                   resolved_section_heirarchy, notSecVars>>

\* docIntelligElementTools.py:312-325: a lookup raises KeyError
ConvertNumberingRaises ==
    /\ secPc = "resolved"
    /\ convert_section_heirarchy_raises(resolved_section_heirarchy)
    /\ secPc' = "key_error"
    /\ UNCHANGED <<sections, section_direct_children_mapper, full_heirarchy, missing_ids,
                   resolved_section_heirarchy, section_to_incremental_id_mapper, notSecVars>>

NextSec ==
    \/ StartResolving
    \/ ResolveBranch
    \/ ResolveBranchOverflows
    \/ ReturnHeirarchy
    \/ ConvertNumbering
    \/ ConvertNumberingRaises

SpecSec == InitSec /\ [][NextSec]_vars

(***************************************************************************)
(* get_element_span_info_list followed by order_element_info_list          *)
(* (docIntelligElementTools.py:106-147, 175-267)                           *)
(***************************************************************************)
MaxCollected == 3

\* the classes of the elements the pre-pass collects (lines 200-209, 243)
CollectedTypes ==
    {"DocumentPage", "DocumentSection", "DocumentParagraph", "DocumentTable", "DocumentFigure",
     "DocumentList", "DocumentKeyValuePair", "Document",
     "DocumentLine", "DocumentWord", "DocumentSelectionMark"}

\* the keys of priority_mapper (lines 126-137)
PrioritisedTypes ==
    {"DocumentPage", "DocumentSection", "DocumentTable", "DocumentFigure", "Document",
     "DocumentKeyValuePair", "DocumentParagraph", "DocumentLine", "DocumentSelectionMark",
     "DocumentWord"}

\* start page and full span bounds of the collected elements: page 1 holds
\* the offsets 0..2 and page 2 the offsets from 3 on
CollectedShapes ==
    {[start_page_number |-> 1, full_span_bounds |-> SpanBounds(0, 2)],
     [start_page_number |-> 1, full_span_bounds |-> SpanBounds(0, 3)],
     [start_page_number |-> 1, full_span_bounds |-> SpanBounds(1, 2)],
     [start_page_number |-> 2, full_span_bounds |-> SpanBounds(3, 4)]}

\* the key of the lambda at lines 141-146
KeyOf(x) == SortKey(x.start_page_number, x.full_span_bounds, x.type)

\* sorted() is stable: an element goes behind every element whose key is not
\* greater than its own
RECURSIVE InsertByKey(_, _)
InsertByKey(list, x) ==
    IF list = <<>> THEN <<x>>
    ELSE IF KeyLess(KeyOf(x), KeyOf(Head(list))) THEN <<x>> \o list
    ELSE <<Head(list)>> \o InsertByKey(Tail(list), x)

RECURSIVE sorted_by_key(_)
sorted_by_key(list) ==
    IF list = <<>> THEN <<>>
    ELSE InsertByKey(sorted_by_key(SubSeq(list, 1, Len(list) - 1)), list[Len(list)])

\* priority_mapper[type(x.element)] raises KeyError for a class that is not a key
order_element_info_list_raises(list) ==
    \E i \in DOMAIN list : list[i].type \notin PrioritisedTypes

order_element_info_list(list) == sorted_by_key(list)

InitOrder ==
    /\ MergeIdle
    /\ AsmIdle
    /\ CalcIdle
    /\ SecIdle
    /\ RRIdle
    /\ DispatchIdle
    /\ LateIdle
    /\ element_span_info_list = <<>>
    /\ ordered_element_span_info_list = <<>>
    /\ orderPc = "collecting"

\* lines 199-240 and 242-266: one more element is appended; the attributes are
\* visited in a fixed order
CollectElement ==
    /\ orderPc = "collecting"
    /\ Len(element_span_info_list) < MaxCollected
    /\ \E type \in CollectedTypes, shape \in CollectedShapes :
          /\ IF element_span_info_list = <<>> THEN TRUE
             ELSE PrePassRank(element_span_info_list[Len(element_span_info_list)].type) <= PrePassRank(type)
          /\ element_span_info_list' = Append(element_span_info_list,
                 [element_id |-> Len(element_span_info_list) + 1, type |-> type,
                  start_page_number |-> shape.start_page_number,
                  full_span_bounds |-> shape.full_span_bounds])
    /\ UNCHANGED <<ordered_element_span_info_list, orderPc, notOrderVars>>

OrderElements ==
    /\ orderPc = "collecting"
    /\ ~order_element_info_list_raises(element_span_info_list)
    /\ ordered_element_span_info_list' = order_element_info_list(element_span_info_list)
    /\ orderPc' = "ordered"
    /\ UNCHANGED <<element_span_info_list, notOrderVars>>

OrderElementsRaises ==
    /\ orderPc = "collecting"
    /\ order_element_info_list_raises(element_span_info_list)
    /\ orderPc' = "KeyError"
    /\ UNCHANGED <<element_span_info_list, ordered_element_span_info_list, notOrderVars>>

NextOrder ==
    \/ CollectElement
    \/ OrderElements
    \/ OrderElementsRaises

SpecOrder == InitOrder /\ [][NextOrder]_vars

(***************************************************************************)
(* AzureOpenAIClientsRoundRobin.get_next_client                            *)
(* (src/roundRobin/azureOpenAIClientRoundRobin.py:23-36)                   *)
(***************************************************************************)
MaxClients == 3
MaxCallers == 3
MaxCalls == 4

Callers == 1..MaxCallers
NoClient == 0 - 1

\* the pool: handle i is the client built from the i-th connection
BuildClients(n) == [i \in 0..(n - 1) |-> i]
client_count == Cardinality(DOMAIN clients)

\* the lock taken by every caller, whoever holds it
LockIgnored(l) == TRUE
\* asyncio.Lock: acquired only when nobody holds it
LockFree(l) == l = 0

InitRR ==
    /\ MergeIdle
    /\ AsmIdle
    /\ CalcIdle
    /\ SecIdle
    /\ OrderIdle
    /\ DispatchIdle
    /\ LateIdle
    /\ \E n \in 1..MaxClients : clients = BuildClients(n)
    /\ rr_index = 0
    /\ lock = 0
    /\ client = [c \in Callers |-> NoClient]
    /\ granted = <<>>
    /\ rrPc = [c \in Callers |-> "idle"]

CallsStarted == Len(granted) + Cardinality({c \in Callers : rrPc[c] = "waiting"})

\* a task calls get_next_client and reaches `async with self.lock`
CallGetNextClient(c) ==
    /\ rrPc[c] = "idle"
    /\ CallsStarted < MaxCalls
    /\ rrPc' = [rrPc EXCEPT ![c] = "waiting"]
    /\ UNCHANGED <<clients, rr_index, lock, client, granted, notRRVars>>

\* line 31: the lock is acquired; line 33: client = self.clients[self.index]
AcquireAndRead(c) ==
    /\ rrPc[c] = "waiting"
    /\ LockFree(lock)
    /\ lock' = c
    /\ client' = [client EXCEPT ![c] = clients[rr_index]]
    /\ granted' = Append(granted, clients[rr_index])
    /\ rrPc' = [rrPc EXCEPT ![c] = "read"]
    /\ UNCHANGED <<clients, rr_index, notRRVars>>

\* line 35: self.index = (self.index + 1) % self.client_count
UpdateIndex(c) ==
    /\ rrPc[c] = "read"
    /\ rr_index' = (rr_index + 1) % client_count
    /\ rrPc' = [rrPc EXCEPT ![c] = "updated"]
    /\ UNCHANGED <<clients, lock, client, granted, notRRVars>>

\* line 36: return client, leaving the `async with` block releases the lock
ReturnClient(c) ==
    /\ rrPc[c] = "updated"
    /\ lock' = IF lock = c THEN 0 ELSE lock
    /\ rrPc' = [rrPc EXCEPT ![c] = "idle"]
    /\ UNCHANGED <<clients, rr_index, client, granted, notRRVars>>

NextRR ==
    \/ \E c \in Callers : CallGetNextClient(c)
    \/ \E c \in Callers : AcquireAndRead(c)
    \/ \E c \in Callers : UpdateIndex(c)
    \/ \E c \in Callers : ReturnClient(c)

SpecRR == InitRR /\ [][NextRR]_vars

(***************************************************************************)
(* processMergdeChunkFile (src/semanticChunk/contentSplit.py:124-130) and  *)
(* process_big_chunk_file (src/semanticChunk/semanticChunk.py:17-66)       *)
(***************************************************************************)
MaxTasks == 3
MaxConcurrentSize == 2
\* stop_after_attempt(3), semanticChunk.py:25
StopAfterAttempt == 3

\* a slot is handed out whatever the value of the semaphore
SemaphoreIgnored(value) == TRUE
\* asyncio.Semaphore: acquire goes through only while the value is positive
SemaphoreAvailable(value) == value > 0

InsideLimiter(t) == chunkTasks[t] \in {"reading", "calling", "awaiting", "writing"}
Finished(t) == chunkTasks[t] \in {"done", "failed"}

InitDispatch ==
    /\ MergeIdle
    /\ AsmIdle
    /\ CalcIdle
    /\ SecIdle
    /\ OrderIdle
    /\ LateIdle
    /\ \E n \in 1..MaxClients : clients = BuildClients(n)
    /\ rr_index = 0
    /\ lock = 0
    /\ granted = <<>>
    /\ rrPc = <<>>
    /\ CONCURRENT_SIZE \in 0..MaxConcurrentSize
    /\ sem_value = CONCURRENT_SIZE
    /\ \E n \in 1..MaxTasks :
          /\ chunkTasks = [t \in 1..n |-> "created"]
          /\ attempt_number = [t \in 1..n |-> 0]
          /\ client = [t \in 1..n |-> NoClient]
    /\ saved_parts = {}
    /\ gatherPc = "copying"

\* contentSplit.py:127: the copies of the small chunks are awaited first
CopySmallChunks ==
    /\ gatherPc = "copying"
    /\ gatherPc' = "gathering"
    /\ chunkTasks' = [t \in DOMAIN chunkTasks |-> "waiting"]
    /\ UNCHANGED <<CONCURRENT_SIZE, sem_value, attempt_number, saved_parts, notDispatchVars>>

\* semanticChunk.py:69-70: a copy raises FileNotFoundError, line 129 is not reached
CopyRaises ==
    /\ gatherPc = "copying"
    /\ gatherPc' = "copy_raised"
    /\ UNCHANGED <<CONCURRENT_SIZE, sem_value, chunkTasks, attempt_number, saved_parts, notDispatchVars>>

\* semanticChunk.py:53: async with SEM
AcquireSem(t) ==
    /\ chunkTasks[t] = "waiting"
    /\ SemaphoreAvailable(sem_value)
    /\ sem_value' = sem_value - 1
    /\ chunkTasks' = [chunkTasks EXCEPT ![t] = "reading"]
    /\ UNCHANGED <<CONCURRENT_SIZE, attempt_number, saved_parts, gatherPc, notDispatchVars>>

\* semanticChunk.py:55
ReadFile(t) ==
    /\ chunkTasks[t] = "reading"
    /\ chunkTasks' = [chunkTasks EXCEPT ![t] = "calling"]
    /\ UNCHANGED <<CONCURRENT_SIZE, sem_value, attempt_number, saved_parts, gatherPc, notDispatchVars>>

\* semanticChunk.py:55: the read raises; leaving the block releases the slot
ReadFileRaises(t) ==
    /\ chunkTasks[t] = "reading"
    /\ chunkTasks' = [chunkTasks EXCEPT ![t] = "failed"]
    /\ sem_value' = sem_value + 1
    /\ UNCHANGED <<CONCURRENT_SIZE, attempt_number, saved_parts, gatherPc, notDispatchVars>>

\* the rotation hands out the same client whatever its index
NextIndexStays(i, n) == i
\* azureOpenAIClientRoundRobin.py:35
NextIndex(i, n) == (i + 1) % n

\* semanticChunk.py:25-27, azureOpenAIClientRoundRobin.py:30-36: an attempt of
\* content_chunk_by_llm starts by taking the next client of the rotation; the
\* lock is free whenever a task reaches it, since get_next_client never
\* suspends while it holds the lock
TakeNextClient(t) ==
    /\ chunkTasks[t] = "calling"
    /\ client' = [client EXCEPT ![t] = clients[rr_index]]
    /\ rr_index' = NextIndex(rr_index, client_count)
    /\ attempt_number' = [attempt_number EXCEPT ![t] = @ + 1]
    /\ chunkTasks' = [chunkTasks EXCEPT ![t] = "awaiting"]
    /\ UNCHANGED <<CONCURRENT_SIZE, sem_value, saved_parts, gatherPc, clients, lock,
                   granted, rrPc, notDispatchRRVars>>

\* semanticChunk.py:57, 28-37: the LLM call of the attempt returns, and the
\* attempt ends with its local asyncAzureOpenAIClient
ChunkByLlm(t) ==
    /\ chunkTasks[t] = "awaiting"
    /\ chunkTasks' = [chunkTasks EXCEPT ![t] = "writing"]
    /\ client' = [client EXCEPT ![t] = NoClient]
    /\ UNCHANGED <<CONCURRENT_SIZE, sem_value, attempt_number, saved_parts, gatherPc,
                   clients, rr_index, lock, granted, rrPc, notDispatchRRVars>>

\* semanticChunk.py:25: the attempt fails and is retried after a wait
ChunkByLlmRetries(t) ==
    /\ chunkTasks[t] = "awaiting"
    /\ attempt_number[t] < StopAfterAttempt
    /\ chunkTasks' = [chunkTasks EXCEPT ![t] = "calling"]
    /\ client' = [client EXCEPT ![t] = NoClient]
    /\ UNCHANGED <<CONCURRENT_SIZE, sem_value, attempt_number, saved_parts, gatherPc,
                   clients, rr_index, lock, granted, rrPc, notDispatchRRVars>>

\* semanticChunk.py:25: the last attempt fails, RetryError leaves the block
ChunkByLlmGivesUp(t) ==
    /\ chunkTasks[t] = "awaiting"
    /\ attempt_number[t] >= StopAfterAttempt
    /\ chunkTasks' = [chunkTasks EXCEPT ![t] = "failed"]
    /\ client' = [client EXCEPT ![t] = NoClient]
    /\ sem_value' = sem_value + 1
    /\ UNCHANGED <<CONCURRENT_SIZE, attempt_number, saved_parts, gatherPc,
                   clients, rr_index, lock, granted, rrPc, notDispatchRRVars>>

\* semanticChunk.py:58-66: the parts are written and the slot is released
SaveParts(t) ==
    /\ chunkTasks[t] = "writing"
    /\ saved_parts' = saved_parts \cup {t}
    /\ chunkTasks' = [chunkTasks EXCEPT ![t] = "done"]
    /\ sem_value' = sem_value + 1
    /\ UNCHANGED <<CONCURRENT_SIZE, attempt_number, gatherPc, notDispatchVars>>

\* semanticChunk.py:58-66: writing a part raises; leaving the block releases
\* the slot
SavePartsRaises(t) ==
    /\ chunkTasks[t] = "writing"
    /\ chunkTasks' = [chunkTasks EXCEPT ![t] = "failed"]
    /\ sem_value' = sem_value + 1
    /\ UNCHANGED <<CONCURRENT_SIZE, attempt_number, saved_parts, gatherPc, notDispatchVars>>

\* contentSplit.py:129: asyncio.gather without return_exceptions hands the
\* first exception of a task to the awaiting caller; the other tasks are
\* neither awaited nor cancelled
GatherRaises ==
    /\ gatherPc = "gathering"
    /\ \E t \in DOMAIN chunkTasks : chunkTasks[t] = "failed"
    /\ gatherPc' = "raised"
    /\ UNCHANGED <<CONCURRENT_SIZE, sem_value, chunkTasks, attempt_number, saved_parts, notDispatchVars>>

\* contentSplit.py:129-130: every task has returned
GatherReturns ==
    /\ gatherPc = "gathering"
    /\ \A t \in DOMAIN chunkTasks : chunkTasks[t] = "done"
    /\ gatherPc' = "returned"
    /\ UNCHANGED <<CONCURRENT_SIZE, sem_value, chunkTasks, attempt_number, saved_parts, notDispatchVars>>

NextDispatch ==
    \/ CopySmallChunks
    \/ CopyRaises
    \/ \E t \in DOMAIN chunkTasks : AcquireSem(t)
    \/ \E t \in DOMAIN chunkTasks : ReadFile(t)
    \/ \E t \in DOMAIN chunkTasks : ReadFileRaises(t)
    \/ \E t \in DOMAIN chunkTasks : TakeNextClient(t)
    \/ \E t \in DOMAIN chunkTasks : ChunkByLlm(t)
    \/ \E t \in DOMAIN chunkTasks : ChunkByLlmRetries(t)
    \/ \E t \in DOMAIN chunkTasks : ChunkByLlmGivesUp(t)
    \/ \E t \in DOMAIN chunkTasks : SaveParts(t)
    \/ \E t \in DOMAIN chunkTasks : SavePartsRaises(t)
    \/ GatherRaises
    \/ GatherReturns

SpecDispatch == InitDispatch /\ [][NextDispatch]_vars

\* The event loop runs every task that is ready, so a step of a task that stays
\* possible is taken; every read, LLM call and write comes back, by returning
\* or by raising; asyncio.Semaphore wakes a waiter whenever a slot is given
\* back.  The loop goes on running the tasks after gather has raised.
TaskStep(t, A) == t \in DOMAIN chunkTasks /\ A
DispatchFairness ==
    /\ WF_vars(CopySmallChunks \/ CopyRaises)
    /\ \A t \in 1..MaxTasks :
        /\ WF_vars(TaskStep(t, AcquireSem(t)))
        /\ WF_vars(TaskStep(t, ReadFile(t) \/ ReadFileRaises(t)))
        /\ WF_vars(TaskStep(t, TakeNextClient(t)))
        /\ WF_vars(TaskStep(t, ChunkByLlm(t) \/ ChunkByLlmRetries(t) \/ ChunkByLlmGivesUp(t)))
        /\ WF_vars(TaskStep(t, SaveParts(t) \/ SavePartsRaises(t)))

SpecDispatchFair == InitDispatch /\ [][NextDispatch]_vars /\ DispatchFairness

(***************************************************************************)
(* get_element_heirarchy_mapper, convert_element_heirarchy_to_incremental_ *)
(* numbering and the lookup of get_element_span_info_list                  *)
(* (docIntelligElementTools.py:231-262, 330-364, 415-464)                  *)
(***************************************************************************)
EarlyIdle ==
    MergeIdle /\ AsmIdle /\ CalcIdle /\ SecIdle /\ OrderIdle /\ RRIdle /\ DispatchIdle

MaxListingSections == 2

\* the elements of analyze_result a section may list, as <<attribute, index>>
ListableElements == {<<"paragraphs", 0>>, <<"tables", 0>>}
\* the elements the pre-pass gives a section_heirarchy_incremental_id, in its order
CollectedElements ==
    <<<<"paragraphs", 0>>, <<"paragraphs", 1>>, <<"tables", 0>>,
      <<"lines", 0>>, <<"words", 0>>, <<"selection_marks", 0>>>>
PageSubElementAttrs == {"lines", "words", "selection_marks"}

ListingGraphs ==
    {<<>>} \cup UNION {GraphsOn(0..(n - 1), n) : n \in 1..MaxListingSections}

\* docIntelligElementTools.py:379-389: the loop ends in RecursionError
RECURSIVE ResolveAllRaises(_, _, _)
ResolveAllRaises(mapper, heirarchy, missing) ==
    IF missing = {} THEN FALSE
    ELSE LET branch == get_section_heirarchy_branch(mapper, Min(missing), RecursionLimit(mapper))
         IN  IF branch.err THEN TRUE
             ELSE ResolveAllRaises(mapper, DictUpdate(heirarchy, branch.out),
                                   DOMAIN mapper \ DOMAIN DictUpdate(heirarchy, branch.out))
get_section_heirarchy_raises(mapper) == ResolveAllRaises(mapper, <<>>, DOMAIN mapper)

\* the sections listing an element; lines 449-456 visit them in ascending
\* order, so the entry of the last one stays
ListingSections(secs_elements, elem) ==
    {section_id \in DOMAIN secs_elements : elem \in secs_elements[section_id]}

\* docIntelligElementTools.py:428-464
get_element_heirarchy_mapper(secs, secs_elements) ==
    IF DOMAIN secs = {} THEN <<>>
    ELSE LET section_heirarchy == get_section_heirarchy(BuildChildrenMapper(secs))
             listed == {elem \in ListableElements : ListingSections(secs_elements, elem) # {}}
             elem_types == {elem[1] : elem \in listed}
         IN  [elem_type \in elem_types \cup {"sections"} |->
                IF elem_type = "sections" THEN section_heirarchy
                ELSE [elem_id \in {elem[2] : elem \in {x \in listed : x[1] = elem_type}} |->
                        section_heirarchy[Max(ListingSections(secs_elements,
                                                              <<elem_type, elem_id>>))]]]

\* docIntelligElementTools.py:358: parent_section_heirarchy[-1]
ParentSectionRoot(parent_section_heirarchy) == parent_section_heirarchy[1]
ParentSection(parent_section_heirarchy) ==
    parent_section_heirarchy[Len(parent_section_heirarchy)]

\* dict.get(key, None); None is the empty tuple
DictGet(d, key) == IF key \in DOMAIN d THEN d[key] ELSE NoSection

convert_element_heirarchy_raises(mapper) ==
    /\ "sections" \in DOMAIN mapper
    /\ convert_section_heirarchy_raises(mapper["sections"])

\* docIntelligElementTools.py:345-364
convert_element_heirarchy_to_incremental_numbering(mapper) ==
    IF "sections" \notin DOMAIN mapper THEN <<>>
    ELSE LET section_ids ==
                 convert_section_heirarchy_to_incremental_numbering(mapper["sections"])
         IN  [elem_type \in DOMAIN mapper |->
                IF elem_type = "sections" THEN section_ids
                ELSE [elem_id \in DOMAIN mapper[elem_type] |->
                        DictGet(section_ids, ParentSection(mapper[elem_type][elem_id]))]]

\* docIntelligElementTools.py:234-238 and 262
section_heirarchy_incremental_id(mapper, elem) ==
    IF elem[1] \in PageSubElementAttrs THEN NoSection
    ELSE DictGet(DictGet(mapper, elem[1]), elem[2])

InitElem ==
    /\ EarlyIdle
    /\ SubstIdle
    /\ listing_sections \in ListingGraphs
    /\ section_elements \in [DOMAIN listing_sections -> SUBSET ListableElements]
    /\ elem_heirarchy_mapper = <<>>
    /\ element_to_incremental_id_mapper = <<>>
    /\ collected_ids = <<>>
    /\ elemPc = "start"

GetElementHeirarchyMapper ==
    /\ elemPc = "start"
    /\ ~get_section_heirarchy_raises(BuildChildrenMapper(listing_sections))
    /\ elem_heirarchy_mapper' = get_element_heirarchy_mapper(listing_sections, section_elements)
    /\ elemPc' = "mapped"
    /\ UNCHANGED <<listing_sections, section_elements, element_to_incremental_id_mapper,
                   collected_ids, notElemVars>>

GetElementHeirarchyMapperOverflows ==
    /\ elemPc = "start"
    /\ get_section_heirarchy_raises(BuildChildrenMapper(listing_sections))
    /\ elemPc' = "recursion_error"
    /\ UNCHANGED <<listing_sections, section_elements, elem_heirarchy_mapper,
                   element_to_incremental_id_mapper, collected_ids, notElemVars>>

ConvertElementHeirarchy ==
    /\ elemPc = "mapped"
    /\ ~convert_element_heirarchy_raises(elem_heirarchy_mapper)
    /\ element_to_incremental_id_mapper' =
            convert_element_heirarchy_to_incremental_numbering(elem_heirarchy_mapper)
    /\ elemPc' = "numbered"
    /\ UNCHANGED <<listing_sections, section_elements, elem_heirarchy_mapper,
                   collected_ids, notElemVars>>

ConvertElementHeirarchyRaises ==
    /\ elemPc = "mapped"
    /\ convert_element_heirarchy_raises(elem_heirarchy_mapper)
    /\ elemPc' = "key_error"
    /\ UNCHANGED <<listing_sections, section_elements, elem_heirarchy_mapper,
                   element_to_incremental_id_mapper, collected_ids, notElemVars>>

\* docIntelligElementTools.py:222-240, 242-265: the next element is collected
CollectElementInfo ==
    /\ elemPc = "numbered"
    /\ Len(collected_ids) < Len(CollectedElements)
    /\ collected_ids' = Append(collected_ids,
            section_heirarchy_incremental_id(element_to_incremental_id_mapper,
                                             CollectedElements[Len(collected_ids) + 1]))
    /\ UNCHANGED <<listing_sections, section_elements, elem_heirarchy_mapper,
                   element_to_incremental_id_mapper, elemPc, notElemVars>>

\* docIntelligElementTools.py:267
ReturnElementInfoList ==
    /\ elemPc = "numbered"
    /\ Len(collected_ids) = Len(CollectedElements)
    /\ elemPc' = "collected"
    /\ UNCHANGED <<listing_sections, section_elements, elem_heirarchy_mapper,
                   element_to_incremental_id_mapper, collected_ids, notElemVars>>

NextElem ==
    \/ GetElementHeirarchyMapper
    \/ GetElementHeirarchyMapperOverflows
    \/ ConvertElementHeirarchy
    \/ ConvertElementHeirarchyRaises
    \/ CollectElementInfo
    \/ ReturnElementInfoList

SpecElem == InitElem /\ [][NextElem]_vars

(***************************************************************************)
(* substitute_content_formulas and substitute_content_barcodes             *)
(* (src/docProcess/elementProcess/elementTools.py:69-142)                  *)
(***************************************************************************)
MaxContentLen == 7
MaxMatches == 2

\* A string is a sequence of characters.  "p" stands for the word of the
\* placeholder ("formula" or "barcode"), so that ":p:" is the placeholder; as
\* in the source it begins and ends with the same character.
ContentChars == {":", "p", "x"}
Placeholder == <<":", "p", ":">>

\* elementTools.py:19-28: the stripped text of a formula value, which may be empty
FormulaValues == {<<>>, <<"x">>}
latex_to_text(value) == value
\* elementTools.py:130, 134: the text put in for a barcode holds its value
BarcodeValues == {<<"x">>, <<"p">>}
barcode_to_text(value) == <<"*", ":">> \o value \o <<"*">>

MatchText(kind, value) ==
    IF kind = "formula" THEN latex_to_text(value) ELSE barcode_to_text(value)

\* re.finditer: the leftmost matches that do not overlap, as 0-based
\* (start, end) pairs
RECURSIVE finditer(_, _)
finditer(string, pos) ==
    IF pos + Len(Placeholder) > Len(string) THEN <<>>
    ELSE IF SubSeq(string, pos + 1, pos + Len(Placeholder)) = Placeholder
         THEN <<<<pos, pos + Len(Placeholder)>>>> \o finditer(string, pos + Len(Placeholder))
         ELSE finditer(string, pos + 1)

\* string[a:b] of Python
Slice(string, a, b) == SubSeq(string, a + 1, b)

\* last_idx stays where the placeholder starts
LastIdxAtStart(bounds) == bounds[1]
\* elementTools.py:96, 100: last_idx = match_bounds[1]
LastIdxAfter(bounds) == bounds[2]

\* elementTools.py:91-102 and 124-142: the loop over zip(match_bounds, matching)
RECURSIVE SubstituteLoop(_, _, _, _, _, _, _)
SubstituteLoop(kind, string, match_bounds, matching, k, last_idx, out) ==
    IF k > Len(match_bounds) \/ k > Len(matching)
    THEN out \o Slice(string, last_idx, Len(string))
    ELSE SubstituteLoop(kind, string, match_bounds, matching, k + 1,
            LastIdxAfter(match_bounds[k]),
            IF match_bounds[k][1] = last_idx
            THEN out \o MatchText(kind, matching[k])
            ELSE out \o Slice(string, last_idx, match_bounds[k][1])
                     \o MatchText(kind, matching[k]))

\* elementTools.py:86-89 and 119-122
substitute_content_raises(string, matching) ==
    Len(finditer(string, 0)) # Len(matching)

substitute_content(kind, string, matching) ==
    SubstituteLoop(kind, string, finditer(string, 0), matching, 1, 0, <<>>)

Strings(chars, n) == UNION {[1..k -> chars] : k \in 0..n}

InitSubst ==
    /\ EarlyIdle
    /\ ElemIdle
    /\ placeholder_kind \in {"formula", "barcode"}
    /\ subst_content \in Strings(ContentChars, MaxContentLen)
    /\ matching_values \in
            Strings(IF placeholder_kind = "formula" THEN FormulaValues ELSE BarcodeValues,
                    MaxMatches)
    /\ new_content = <<>>
    /\ substPc = "call"

SubstituteContent ==
    /\ substPc = "call"
    /\ ~substitute_content_raises(subst_content, matching_values)
    /\ new_content' = substitute_content(placeholder_kind, subst_content, matching_values)
    /\ substPc' = "returned"
    /\ UNCHANGED <<placeholder_kind, subst_content, matching_values, notSubstVars>>

SubstituteContentRaises ==
    /\ substPc = "call"
    /\ substitute_content_raises(subst_content, matching_values)
    /\ substPc' = "ValueError"
    /\ UNCHANGED <<placeholder_kind, subst_content, matching_values, new_content, notSubstVars>>

NextSubst ==
    \/ SubstituteContent
    \/ SubstituteContentRaises

SpecSubst == InitSubst /\ [][NextSubst]_vars

(***************************************************************************)
(* Properties of mergeSpitsIntoChunk                                       *)
(***************************************************************************)
RECURSIVE ConcatChunks(_)
ConcatChunks(chunks) ==
    IF chunks = <<>> THEN <<>> ELSE chunks[1].splits \o ConcatChunks(Tail(chunks))

StripNL(content) == SelectSeq(content, LAMBDA item : item.k = "text")

AllSplitsInOrder == [i \in 1..Len(splitResult) |-> Text(i)]

RECURSIVE SumTokens(_)
SumTokens(content) ==
    IF content = <<>> THEN 0
    ELSE (IF content[1].k = "text" THEN splitResult[content[1].i] ELSE 0)
         + SumTokens(Tail(content))

IsBigSplitAt(chunk, p) ==
    /\ chunk.splits[p].k = "text"
    /\ splitResult[chunk.splits[p].i] >= CHUNK_MIN_SIZE

\* C2: whenever mergeSpitsIntoChunk returns, the chunks' contents concatenated in
\* order, without the inserted newlines, are exactly the splits' contents in
\* input order: every split is in exactly one chunk, chunks hold consecutive
\* runs in split order, nothing is lost or duplicated.
C2_LosslessConcatenation ==
    mergePc = "done" => StripNL(ConcatChunks(mergedChunkList)) = AllSplitsInOrder

\* C3: for every non-empty list of splits mergeSpitsIntoChunk returns a chunk
\* list whose last chunk has totalTokens >= CHUNK_MIN_SIZE.
C3_LastChunkAtLeastMin ==
    (Len(splitResult) > 0 /\ mergePc \in {"done", "error"}) =>
        /\ mergePc = "done"
        /\ mergedChunkList # <<>>
        /\ Last(mergedChunkList).totalTokens >= CHUNK_MIN_SIZE

\* C4 as stated: when the main merge loop has ended, every split with
\* tokens >= CHUNK_MIN_SIZE is a chunk of its own, whatever precedes it.
C4_BigSplitAlwaysAlone ==
    mergePc = "final" =>
        \A i \in 1..Len(splitResult) :
            splitResult[i] >= CHUNK_MIN_SIZE =>
                \E c \in 1..Len(mergedChunkList) :
                    mergedChunkList[c] = MergedChunk(<<Text(i)>>, splitResult[i])

\* C4 amended: a split with tokens >= CHUNK_MIN_SIZE that the main loop reaches
\* as the first split of a chunk is emitted by the main loop as a chunk of that
\* split alone (only the final merge-back may append to it afterwards); a split
\* >= CHUNK_MIN_SIZE that follows an accumulating chunk begun by a split below
\* MIN is absorbed into that chunk, which happens only when the running total
\* with it is < CHUNK_MAX_SIZE or the running total without it is < SPIPPETS_SIZE.
C4_BigSplitAloneAtLoopHead ==
    mergePc = "final" =>
        \A c \in 1..Len(mergedChunkList) :
            LET chunk == mergedChunkList[c] IN
            \A p \in 1..Len(chunk.splits) :
                IsBigSplitAt(chunk, p) =>
                    LET tokens == splitResult[chunk.splits[p].i]
                        before == SumTokens(SubSeq(chunk.splits, 1, p - 1))
                    IN  /\ p = 1 => chunk = MergedChunk(<<chunk.splits[1]>>, tokens)
                        /\ p > 1 =>
                            /\ splitResult[chunk.splits[1].i] < CHUNK_MIN_SIZE
                            /\ before < CHUNK_MAX_SIZE
                            /\ (before + tokens < CHUNK_MAX_SIZE \/ before < SPIPPETS_SIZE)

\* C4 witness: the main loop has ended with one big split absorbed into an
\* accumulated chunk and another big split emitted alone.
C4_Witness ==
    /\ mergePc = "final"
    /\ \E c \in 1..Len(mergedChunkList) :
        \E p \in 2..Len(mergedChunkList[c].splits) : IsBigSplitAt(mergedChunkList[c], p)
    /\ \E c \in 1..Len(mergedChunkList) :
        /\ Len(mergedChunkList[c].splits) = 1
        /\ IsBigSplitAt(mergedChunkList[c], 1)

\* C5: while a chunk is accumulated, the next split is examined only while the
\* running total is < CHUNK_MAX_SIZE; an examined split is included when the new
\* total stays < CHUNK_MAX_SIZE, and when it reaches CHUNK_MAX_SIZE it is included
\* iff the split alone is < SPIPPETS_SIZE or the total without it is
\* < SPIPPETS_SIZE; otherwise the chunk is closed with a totalTokens that
\* excludes the split and the split stays the next one to be consumed.
C5_AccumulateRule ==
    [][mergePc = "inner" =>
        IF index < Len(splitResult) /\ combinedTokens < CHUNK_MAX_SIZE
        THEN LET cur == splitResult[index + 1]
                 total == combinedTokens + cur
             IN  IF total >= CHUNK_MAX_SIZE
                    => (cur < SPIPPETS_SIZE \/ combinedTokens < SPIPPETS_SIZE)
                 THEN /\ index' = index + 1
                      /\ combinedTokens' = total
                      /\ combinedContent' = combinedContent \o <<NL, Text(index + 1)>>
                      /\ mergedChunkList' = mergedChunkList
                      /\ mergePc' = "inner"
                 ELSE /\ index' = index
                      /\ mergedChunkList' =
                            Append(mergedChunkList, MergedChunk(combinedContent, combinedTokens))
                      /\ mergePc' = "outer"
        ELSE /\ index' = index
             /\ mergedChunkList' =
                    Append(mergedChunkList, MergedChunk(combinedContent, combinedTokens))
             /\ mergePc' = "outer"
      ]_vars

\* C5 witness: a split was backed out: an accumulated chunk was closed below
\* CHUNK_MAX_SIZE although splits remain, and that split is the next one.
C5_Witness ==
    /\ mergePc = "outer"
    /\ index < Len(splitResult)
    /\ mergedChunkList # <<>>
    /\ splitResult[Last(mergedChunkList).splits[1].i] < CHUNK_MIN_SIZE
    /\ Last(mergedChunkList).totalTokens < CHUNK_MAX_SIZE
    /\ Last(mergedChunkList).totalTokens + splitResult[index + 1] >= CHUNK_MAX_SIZE

(***************************************************************************)
(* Properties of process_analyze_result                                    *)
(***************************************************************************)
\* the step handles the next element of the ordered list (it is current')
HandlesElement == asmPc = "loop" /\ element_idx' = element_idx + 1

\* the units the step appended to the output
NewUnits == SubSeq(full_output_list', Len(full_output_list) + 1, Len(full_output_list'))

IsPageEndUnit(unit) == unit.element_type = "DocumentPage" /\ unit.page_location = "end"
IsPageStartUnit(unit) == unit.element_type = "DocumentPage" /\ unit.page_location = "start"

\* two spans share an offset of the document
SpansOverlap(a, b) == a.offset < b.offset + b.length /\ b.offset < a.offset + a.length

UnitsOverlap(u, v) ==
    \E i \in DOMAIN u.spans : \E j \in DOMAIN v.spans : SpansOverlap(u.spans[i], v.spans[j])

LowPriorityUnits ==
    {i \in DOMAIN full_output_list : full_output_list[i].element_type \in SkippableTypes}

\* C1: among the output units made from Paragraph, Line, Word and KeyValuePair
\* elements, no two come from elements whose spans overlap.
C1_NoOverlappingUnits ==
    \A i \in LowPriorityUnits : \A j \in LowPriorityUnits :
        i < j => ~UnitsOverlap(full_output_list[i], full_output_list[j])

\* some span of the element lies inside a claimed span (the containment of the claim)
ContainedInClaimed(spans) ==
    \E i \in DOMAIN spans : \E c \in current_page_priority_spans :
        /\ spans[i].offset >= c.offset
        /\ spans[i].offset + spans[i].length <= c.offset + c.length

\* the step left no trace of the element: no output unit, nothing claimed
NoTrace ==
    /\ full_output_list' = full_output_list
    /\ current_page_priority_spans' = current_page_priority_spans

\* elements of the other types are never skipped by the rule: tables and
\* figures inside a claimed span are still converted and claim their spans
OtherTypesNeverSkipped ==
    (HandlesElement /\ current'.type \notin SkippableTypes) =>
        /\ current'.disposition # "skipped"
        /\ (current'.type \in {"DocumentTable", "DocumentFigure"} /\ lastError' = "none") =>
                /\ Len(NewUnits) > 0
                /\ NewUnits[Len(NewUnits)].element_type = current'.type
                /\ Range(current'.spans) \subseteq current_page_priority_spans'

\* C6 as stated: a KeyValuePair, Paragraph, Line or Word element produces no
\* output unit and adds nothing to the claimed set exactly when one of its spans
\* is fully contained in a claimed span; other types are never skipped.
C6_NoTraceExactlyWhenContained ==
    [][ /\ (HandlesElement /\ current'.type \in SkippableTypes) =>
                (NoTrace <=> ContainedInClaimed(current'.spans))
        /\ OtherTypesNeverSkipped ]_vars

\* C6: a KeyValuePair, Paragraph, Line or Word element whose processing does
\* not fail produces no output unit and adds nothing to the claimed set exactly
\* when one of its spans is fully contained in a claimed span, and then no
\* processing of it is attempted; other types are never skipped.
C6_SkippedExactlyWhenContained ==
    [][ /\ (HandlesElement /\ current'.type \in SkippableTypes) =>
                /\ ContainedInClaimed(current'.spans) =>
                        NoTrace /\ lastError' = "none" /\ current'.disposition = "skipped"
                /\ (lastError' = "none" /\ NoTrace) => ContainedInClaimed(current'.spans)
        /\ OtherTypesNeverSkipped ]_vars

C6_Witness ==
    /\ current.type = "DocumentWord"
    /\ current.disposition = "skipped"
    /\ \E i \in DOMAIN full_output_list : full_output_list[i].element_type = "DocumentParagraph"

\* the step handles the first unskipped element of a later page than the current one
PageTransition ==
    /\ HandlesElement
    /\ current'.disposition # "skipped"
    /\ current_page_info # 0
    /\ current'.key[1] > PageInfo(current_page_info).start_page_number

NewPageStart == page_span_calculator.page_span_bounds[current'.key[1]].offset

\* the claimed spans that reach the new page
ReachNewPage ==
    {span \in current_page_priority_spans : span.offset + span.length > NewPageStart}

ClaimedByStep == IF current'.disposition = "processed" THEN Range(current'.spans) ELSE {}

\* C7: on a page transition the claimed set is reduced to exactly the claimed
\* spans that do not end before the new page's start; a claimed span that
\* extends onto the new page stays claimed.
C7_PruneKeepsSpansReachingNewPage ==
    [][PageTransition => current_page_priority_spans' = ReachNewPage \cup ClaimedByStep]_vars

PageStartUnits(n) ==
    {i \in DOMAIN full_output_list :
        IsPageStartUnit(full_output_list[i]) /\ full_output_list[i].page_number = n}
PageEndUnits(n) ==
    {i \in DOMAIN full_output_list :
        IsPageEndUnit(full_output_list[i]) /\ full_output_list[i].page_number = n}

\* C8: each page whose start units were emitted has its closing units emitted
\* exactly once: after every unit of that page's elements and before the start
\* units of the next page, or at end of input for the last page.
C8_ClosingUnitsExactlyOnce ==
    \A n \in {pages[k].page_number : k \in DOMAIN pages} :
        PageStartUnits(n) # {} =>
            /\ Cardinality(PageEndUnits(n)) <= 1
            /\ asmPc = "done" => Cardinality(PageEndUnits(n)) = 1
            /\ \A e \in PageEndUnits(n) : \A i \in DOMAIN full_output_list :
                    /\ (full_output_list[i].page_number = n /\ i # e) => i < e
                    /\ (IsPageStartUnit(full_output_list[i])
                            /\ full_output_list[i].page_number > n) => e < i

FatalConsistencyErrors == {"page_gap", "image_keys"}

CounterOf(counter, class_name) ==
    IF class_name \in DOMAIN counter THEN counter[class_name] ELSE 0

ElementClasses ==
    {"DocumentPage", "DocumentSection", "DocumentTable", "DocumentFigure",
     "DocumentKeyValuePair", "Document", "DocumentParagraph", "DocumentLine",
     "DocumentSelectionMark", "DocumentWord"}

\* the step counts one more element of class_name and nothing else
CountsOne(class_name) ==
    \A c \in ElementClasses :
        CounterOf(unprocessed_element_counter', c) =
            CounterOf(unprocessed_element_counter, c) + (IF c = class_name THEN 1 ELSE 0)

CountsNothing ==
    \A c \in ElementClasses :
        CounterOf(unprocessed_element_counter', c) = CounterOf(unprocessed_element_counter, c)

Constructed == calcPc \in {"built", "answered", "range_error"}

\* the interval of the k-th page of the list
IntervalOf(k) == calc_instance.page_span_bounds[calc_pages[k].page_number]

\* the first interval starts at 0, each following one at the previous end + 1
IntervalsContiguous ==
    /\ IntervalOf(1).offset = 0
    /\ \A k \in 1..(Len(calc_pages) - 1) : IntervalOf(k + 1).offset = IntervalOf(k).end + 1

\* the spans of two consecutive pages leave offsets between them uncovered
DataLeavesGap(pgs) ==
    \E k \in 1..(Len(pgs) - 1) :
        get_min_and_max_span_bounds(pgs[k + 1].spans).offset >
            Max({get_min_and_max_span_bounds(pgs[k].spans).end, pgs[k].last_word_end}) + 1

\* C12: a successfully constructed calculator has contiguous page intervals
\* (first at 0, each next at the previous end + 1), and page data that leaves
\* a gap between two consecutive pages makes the construction fail.
C12_ContiguousOrGapError ==
    /\ Constructed => IntervalsContiguous
    /\ (calcPc # "new" /\ calcPc # "idle" /\ DataLeavesGap(calc_pages)) => calcPc = "gap_error"

\* C13: for a constructed calculator every offset from 0 to the document end
\* lies in exactly one page interval, determine_span_start_page returns that
\* page, and an offset beyond the document end makes it fail.
C13_UniqueContainingPage ==
    /\ Constructed =>
            \A x \in 0..calc_instance.doc_end_span :
                Cardinality(PagesContaining(calc_instance, x)) = 1
    /\ calcPc = "answered" =>
            /\ calc_offset <= calc_instance.doc_end_span
            /\ PagesContaining(calc_instance, calc_offset) = {calc_result}
    /\ calcPc = "range_error" => calc_offset > calc_instance.doc_end_span

(***************************************************************************)
(* Properties of the section hierarchy and numbering                       *)
(***************************************************************************)
SectionIdSet == DOMAIN sections

Resolved == secPc \in {"resolved", "numbered", "key_error"}

\* C14: section-hierarchy resolution terminates on every finite section
\* graph, cyclic and multi-parent graphs included, and then every section id
\* has an ancestor chain (ending in the section itself).
C14_ResolutionTerminates ==
    /\ secPc # "recursion_error"
    /\ Resolved =>
            /\ DOMAIN resolved_section_heirarchy = SectionIdSet
            /\ \A id \in SectionIdSet :
                    /\ Len(resolved_section_heirarchy[id]) >= 1
                    /\ resolved_section_heirarchy[id][Len(resolved_section_heirarchy[id])] = id

\* the sections a section references as children, as the input gives them
ReferencedBy(p) == {sections[p][i] : i \in DOMAIN sections[p]}

RECURSIVE ReachableFrom(_, _)
ReachableFrom(S, k) ==
    IF k = 0 THEN S
    ELSE ReachableFrom(S \cup UNION {ReferencedBy(x) : x \in S}, k - 1)

AcyclicGraph ==
    \A id \in SectionIdSet :
        id \notin ReachableFrom(ReferencedBy(id), Cardinality(SectionIdSet))

ParentsOf(id) == {p \in SectionIdSet : id \in ReferencedBy(p)}
SingleParentGraph == \A id \in SectionIdSet : Cardinality(ParentsOf(id)) <= 1

HasParent(id) == ParentsOf(id) # {}
ParentOf(id) == CHOOSE p \in SectionIdSet : id \in ReferencedBy(p)

\* the sections from the root down to id
RECURSIVE AncestorChain(_)
AncestorChain(id) == IF HasParent(id) THEN AncestorChain(ParentOf(id)) \o <<id>> ELSE <<id>>

\* the rank of a section among the children of its parent, by ascending id
SiblingRank(id) ==
    1 + Cardinality({t \in SectionIdSet : t < id /\ HasParent(t) /\ ParentOf(t) = ParentOf(id)})

ExpectedNumbering(id) ==
    [i \in 1..(Len(AncestorChain(id)) - 1) |-> SiblingRank(AncestorChain(id)[i + 1])]

\* C15: for an acyclic graph in which every section has at most one parent the
\* numbering completes without error, maps each section that has a parent to
\* the sibling ranks of its ancestors below the root followed by its own, and
\* gives no tuple to a section without a parent.
C15_NumberingOfForests ==
    (AcyclicGraph /\ SingleParentGraph) =>
        /\ secPc \notin {"recursion_error", "key_error"}
        /\ secPc = "numbered" =>
                /\ DOMAIN section_to_incremental_id_mapper = {id \in SectionIdSet : HasParent(id)}
                /\ \A id \in DOMAIN section_to_incremental_id_mapper :
                        section_to_incremental_id_mapper[id] = ExpectedNumbering(id)

\* the numbered sections that share the parent chain of id
SameParentChain(id) ==
    {t \in DOMAIN section_to_incremental_id_mapper :
        ParentChain(resolved_section_heirarchy, t) = ParentChain(resolved_section_heirarchy, id)}

RankInMap(id) ==
    section_to_incremental_id_mapper[id][Len(section_to_incremental_id_mapper[id])]

\* C16: in the numbering map the k sections that share a parent chain have the
\* ranks 1..k, without gaps or duplicates, in ascending order of section id;
\* the map is a function of the section graph alone.
C16_SiblingRanksInIdOrder ==
    secPc = "numbered" =>
        /\ \A id \in DOMAIN section_to_incremental_id_mapper :
                /\ RankInMap(id) = 1 + Cardinality({t \in SameParentChain(id) : t < id})
                /\ {RankInMap(t) : t \in SameParentChain(id)}
                        = 1..Cardinality(SameParentChain(id))
        /\ section_to_incremental_id_mapper =
                convert_section_heirarchy_to_incremental_numbering(
                    get_section_heirarchy(BuildChildrenMapper(sections)))

C16_Witness ==
    /\ secPc = "numbered"
    /\ \E id \in DOMAIN section_to_incremental_id_mapper :
            Cardinality(SameParentChain(id)) >= 2 /\ RankInMap(id) = 2

(***************************************************************************)
(* Properties of order_element_info_list                                   *)
(***************************************************************************)
IsPermutationOf(out, in) ==
    /\ Len(out) = Len(in)
    /\ \A i \in DOMAIN in : \E j \in DOMAIN out : out[j] = in[i]

OrderedByKey(out) ==
    \A i, j \in DOMAIN out : i < j => ~KeyLess(KeyOf(out[j]), KeyOf(out[i]))

KeepsInputOrder(out) ==
    \A i, j \in DOMAIN out :
        (i < j /\ KeyOf(out[i]) = KeyOf(out[j])) => out[i].element_id < out[j].element_id

OrderedStablePermutation ==
    /\ IsPermutationOf(ordered_element_span_info_list, element_span_info_list)
    /\ OrderedByKey(ordered_element_span_info_list)
    /\ KeepsInputOrder(ordered_element_span_info_list)

\* C17: every element the pre-pass collects has a priority, so ordering never
\* fails with KeyError, and the ordered list is a permutation of the collected
\* list, ascending by key, in which elements of equal key keep their input order.
C17_OrderedStablePermutation ==
    /\ orderPc # "KeyError"
    /\ orderPc = "ordered" => OrderedStablePermutation

(***************************************************************************)
(* Properties of the round-robin client pool                               *)
(***************************************************************************)
\* C18: for a pool of n >= 1 handles and any interleaving of callers, the k-th
\* granted call (k = 0, 1, ...) receives clients[k mod n], any n consecutive
\* grants are pairwise distinct, and the rotation index stays in 0..n-1.
C18_GrantsInRotation ==
    /\ rr_index \in 0..(client_count - 1)
    /\ \A k \in 0..(Len(granted) - 1) : granted[k + 1] = clients[k % client_count]
    /\ \A j, k \in 0..(Len(granted) - 1) :
          (j < k /\ k - j < client_count) => granted[j + 1] # granted[k + 1]

\* a pool of two handles has wrapped around while a caller waits for the lock
\* held by another caller
C18_Witness ==
    /\ client_count = 2
    /\ Len(granted) = 3
    /\ lock # 0
    /\ \E c \in Callers : rrPc[c] = "waiting"

(***************************************************************************)
(* Properties of the chunk dispatch                                        *)
(***************************************************************************)
TasksInsideLimiter == {t \in DOMAIN chunkTasks : InsideLimiter(t)}

\* C19: at every moment at most CONCURRENT_SIZE big-chunk tasks are between
\* acquiring and releasing the limiter; the tasks beyond that number wait.
C19_AtMostConcurrentSizeInside ==
    /\ Cardinality(TasksInsideLimiter) <= CONCURRENT_SIZE
    /\ sem_value = CONCURRENT_SIZE - Cardinality(TasksInsideLimiter)

\* the limiter is full and a further task waits for a slot
C19_Witness ==
    /\ CONCURRENT_SIZE = 2
    /\ Cardinality(TasksInsideLimiter) = 2
    /\ \E t \in DOMAIN chunkTasks : chunkTasks[t] = "waiting"

\* C20: when processMergdeChunkFile has raised the failure of a chunk task to
\* its caller, every task of the batch has finished (done or failed) and
\* the parts written by the successful tasks are there.
C20_FailureRaisedAfterBatchFinished ==
    gatherPc = "raised" =>
        /\ \A t \in DOMAIN chunkTasks : Finished(t)
        /\ saved_parts = {t \in DOMAIN chunkTasks : chunkTasks[t] = "done"}

(***************************************************************************)
(* Frame of the element branches of process_analyze_result                 *)
(***************************************************************************)
\* what lines 194-214 leave before the branch of the handled element is taken
ClaimedBeforeBranch ==
    IF PageTransition
    THEN {span \in current_page_priority_spans :
            span.offset > PageInfo(current_page_info).full_span_bounds.end}
    ELSE current_page_priority_spans
OutputBeforeBranch ==
    IF PageTransition
    THEN Append(full_output_list,
                OutputUnit(PageInfo(current_page_info), "end",
                           current_section_heirarchy_incremental_id))
    ELSE full_output_list

BranchOf(disposition) ==
    HandlesElement /\ lastError' = "none" /\ current'.disposition = disposition

UnitsOfBranch ==
    SubSeq(full_output_list', Len(OutputBeforeBranch) + 1, Len(full_output_list'))

SectionBranchFrame ==
    BranchOf("section") =>
        /\ current_page_priority_spans' = ClaimedBeforeBranch
        /\ current_page_priority_spans' \subseteq current_page_priority_spans
        /\ SubSeq(full_output_list', 1, Len(OutputBeforeBranch)) = OutputBeforeBranch
        /\ \A i \in DOMAIN UnitsOfBranch : UnitsOfBranch[i].element_type = "DocumentSection"
        /\ UNCHANGED <<current_page_info, transformed_page_imgs, unprocessed_element_counter>>

PageBranchFrame ==
    BranchOf("page") =>
        /\ current_page_priority_spans' = ClaimedBeforeBranch
        /\ current_page_priority_spans' \subseteq current_page_priority_spans
        /\ SubSeq(full_output_list', 1, Len(OutputBeforeBranch)) = OutputBeforeBranch
        /\ \A i \in DOMAIN UnitsOfBranch : IsPageStartUnit(UnitsOfBranch[i])
        /\ UNCHANGED <<current_section_heirarchy_incremental_id, unprocessed_element_counter>>

SelectionMarkBranchFrame ==
    BranchOf("selection_mark") =>
        /\ current_page_priority_spans' = ClaimedBeforeBranch
        /\ current_page_priority_spans' \subseteq current_page_priority_spans
        /\ full_output_list' = OutputBeforeBranch
        /\ UNCHANGED <<current_page_info, transformed_page_imgs,
                       current_section_heirarchy_incremental_id, unprocessed_element_counter>>

ContentBranchClaimsOwnSpans ==
    BranchOf("processed") =>
        current_page_priority_spans' = ClaimedBeforeBranch \cup Range(current'.spans)

TupleOfSection(section_id) ==
    IF "sections" \in DOMAIN element_to_incremental_id_mapper
       /\ section_id \in DOMAIN element_to_incremental_id_mapper["sections"]
    THEN element_to_incremental_id_mapper["sections"][section_id]
    ELSE NoSection

\* C22: an element that a section lists has the numbering tuple of a section
\* listing it; an element no section lists, and every line, word and selection
\* mark, has none.
C22_ElementsInheritSectionTuple ==
    \A i \in DOMAIN collected_ids :
        LET elem == CollectedElements[i]
            listing == ListingSections(section_elements, elem)
        IN  IF listing = {} \/ elem[1] \in PageSubElementAttrs
            THEN collected_ids[i] = NoSection
            ELSE \E section_id \in listing : collected_ids[i] = TupleOfSection(section_id)

\* a paragraph listed by a numbered section and an unlisted table were collected
C22_Witness ==
    /\ elemPc = "collected"
    /\ collected_ids[1] # NoSection
    /\ ListingSections(section_elements, <<"tables", 0>>) = {}

(***************************************************************************)
(* Properties of the placeholder substitution                              *)
(***************************************************************************)
StartsWithPlaceholder(string) ==
    Len(string) >= Len(Placeholder) /\ SubSeq(string, 1, Len(Placeholder)) = Placeholder

\* the placeholders of a string, counted from the left
RECURSIVE CountOfPlaceholders(_)
CountOfPlaceholders(string) ==
    IF string = <<>> THEN 0
    ELSE IF StartsWithPlaceholder(string)
         THEN 1 + CountOfPlaceholders(SubSeq(string, Len(Placeholder) + 1, Len(string)))
         ELSE CountOfPlaceholders(Tail(string))

\* the string with its i-th placeholder replaced by the i-th text and every
\* character outside the placeholders kept
RECURSIVE WithPlaceholdersReplaced(_, _)
WithPlaceholdersReplaced(string, texts) ==
    IF string = <<>> THEN <<>>
    ELSE IF StartsWithPlaceholder(string)
         THEN Head(texts) \o WithPlaceholdersReplaced(
                    SubSeq(string, Len(Placeholder) + 1, Len(string)), Tail(texts))
         ELSE <<Head(string)>> \o WithPlaceholdersReplaced(Tail(string), texts)

MatchTexts == [k \in DOMAIN matching_values |-> MatchText(placeholder_kind, matching_values[k])]

\* C23: with as many matched formulas (barcodes) as placeholders the call
\* returns the content with the i-th placeholder replaced by the text of the
\* i-th match and everything else kept in order, so none of the content's
\* placeholders is left; with a different number it raises and returns nothing.
C23_SubstitutionReplacesInOrder ==
    /\ substPc = "returned" =>
            /\ CountOfPlaceholders(subst_content) = Len(matching_values)
            /\ new_content = WithPlaceholdersReplaced(subst_content, MatchTexts)
    /\ substPc = "ValueError" =>
            /\ CountOfPlaceholders(subst_content) # Len(matching_values)
            /\ new_content = <<>>

\* two placeholders apart from each other were replaced by different texts
C23_Witness ==
    /\ substPc = "returned"
    /\ Len(matching_values) = 2
    /\ matching_values[1] # matching_values[2]
    /\ Len(subst_content) = 7
    /\ subst_content[4] = "x"

(***************************************************************************)
(* The worked example of mergeSpitsIntoChunk                               *)
(***************************************************************************)
ExampleSplits == <<500, 600, 2000, 300>>

\* the splits a chunk holds, in order, without the separators
SplitsHeld(chunk) == [k \in DOMAIN StripNL(chunk.splits) |-> StripNL(chunk.splits)[k].i]

\* C24: with MIN=1000, MAX=1400, SNIPPET=600 the splits with tokens
\* [500, 600, 2000, 300] give exactly two chunks with totalTokens [1100, 2300],
\* the first holding splits 1 and 2, the second split 3 followed by split 4.
C24_ExampleGivesTwoChunks ==
    splitResult = ExampleSplits =>
        /\ mergePc # "error"
        /\ mergePc = "done" =>
                /\ Len(mergedChunkList) = 2
                /\ mergedChunkList[1].totalTokens = 1100
                /\ mergedChunkList[2].totalTokens = 2300
                /\ SplitsHeld(mergedChunkList[1]) = <<1, 2>>
                /\ SplitsHeld(mergedChunkList[2]) = <<3, 4>>

C24_Witness == splitResult = ExampleSplits /\ mergePc = "done"

(***************************************************************************)
(* Aggregates before the elements nested in them                           *)
(***************************************************************************)
AggregateTypes == {"DocumentTable", "DocumentFigure", "DocumentKeyValuePair"}
NestedTypes == {"DocumentParagraph", "DocumentLine", "DocumentWord"}

LiesInside(inner, outer) == outer.offset <= inner.offset /\ inner.end <= outer.end

\* C25: in the ordered list a Table, Figure or KeyValuePair comes before every
\* Paragraph, Line or Word of the same start page whose span lies inside its
\* full span.
C25_AggregateBeforeNested ==
    orderPc = "ordered" =>
        \A i, j \in DOMAIN ordered_element_span_info_list :
            LET a == ordered_element_span_info_list[i]
                n == ordered_element_span_info_list[j]
            IN  (/\ a.type \in AggregateTypes
                 /\ n.type \in NestedTypes
                 /\ a.start_page_number = n.start_page_number
                 /\ LiesInside(n.full_span_bounds, a.full_span_bounds)) => i < j

\* a paragraph collected before a table of the same span is placed behind it
C25_Witness ==
    /\ orderPc = "ordered"
    /\ \E i, j \in DOMAIN ordered_element_span_info_list :
            /\ i < j
            /\ ordered_element_span_info_list[i].type = "DocumentTable"
            /\ ordered_element_span_info_list[j].type = "DocumentParagraph"
            /\ ordered_element_span_info_list[i].full_span_bounds =
                    ordered_element_span_info_list[j].full_span_bounds
            /\ ordered_element_span_info_list[j].element_id <
                    ordered_element_span_info_list[i].element_id

(***************************************************************************)
(* Frame of the merge-back step of mergeSpitsIntoChunk                     *)
(***************************************************************************)
\* the step from "final" that folds an undersized last chunk into the one before
MergeBackStep ==
    /\ mergePc = "final"
    /\ mergePc' = "done"
    /\ mergedChunkList # <<>>
    /\ Last(mergedChunkList).totalTokens < CHUNK_MIN_SIZE

\* C26: the merge-back changes only the last two chunks: the earlier chunks
\* are returned unchanged, the former second-to-last chunk absorbs content and
\* tokens of the last one, and nothing changes the list afterwards (the step is
\* taken once and no pass corrects a chunk that went above CHUNK_MAX_SIZE).
C26_MergeBackFrame ==
    [][/\ MergeBackStep =>
            /\ Len(mergedChunkList') = Len(mergedChunkList) - 1
            /\ \A k \in 1..(Len(mergedChunkList) - 2) :
                    mergedChunkList'[k] = mergedChunkList[k]
            /\ Last(mergedChunkList').splits =
                    Last(Front(mergedChunkList)).splits \o Last(mergedChunkList).splits
            /\ Last(mergedChunkList').totalTokens =
                    Last(Front(mergedChunkList)).totalTokens + Last(mergedChunkList).totalTokens
       /\ mergePc = "done" => UNCHANGED mergedChunkList]_vars

\* a returned list of several chunks whose final chunk, made by the merge-back,
\* is above CHUNK_MAX_SIZE
C26_Witness ==
    /\ mergePc = "done"
    /\ Len(mergedChunkList) >= 2
    /\ Last(mergedChunkList).totalTokens > CHUNK_MAX_SIZE
    /\ \E q \in 1..(Len(Last(mergedChunkList).splits) - 1) :
            /\ Last(mergedChunkList).splits[q].k = "text"
            /\ Last(mergedChunkList).splits[q + 1].k = "text"

(***************************************************************************)
(* Well-formed span bounds                                                 *)
(***************************************************************************)
WellFormed(bounds) == bounds.offset <= bounds.end

\* C27: every interval PageSpanCalculator assigns to a page, and the union
\* span bounds of every element, satisfy offset <= end, also for a page whose
\* own span end is not greater than the end of the page before it.
C27_BoundsWellFormed ==
    /\ \A k \in DOMAIN calc_pages :
            WellFormed(get_min_and_max_span_bounds(calc_pages[k].spans))
    /\ Constructed => \A k \in DOMAIN calc_pages : WellFormed(IntervalOf(k))

(***************************************************************************)
(* Token accounting of mergeSpitsIntoChunk                                 *)
(***************************************************************************)
RECURSIVE SumOfTotalTokens(_)
SumOfTotalTokens(chunks) ==
    IF chunks = <<>> THEN 0 ELSE chunks[1].totalTokens + SumOfTotalTokens(Tail(chunks))

RECURSIVE SumOfSplitTokens(_)
SumOfSplitTokens(splits) ==
    IF splits = <<>> THEN 0 ELSE splits[1] + SumOfSplitTokens(Tail(splits))

\* every chunk made so far counts exactly the tokens of the splits it holds
ChunkTokensMatchContent ==
    \A k \in DOMAIN mergedChunkList :
        mergedChunkList[k].totalTokens = SumTokens(mergedChunkList[k].splits)

\* C28: every returned chunk has totalTokens equal to the sum of the tokens of
\* the splits whose content it holds, and the totalTokens of the returned
\* chunks add up to the tokens of all input splits.
C28_TokensAccountedFor ==
    /\ ChunkTokensMatchContent
    /\ mergePc = "done" =>
            SumOfTotalTokens(mergedChunkList) = SumOfSplitTokens(splitResult)

(***************************************************************************)
(* The rolling section numbering of the assembler pass                     *)
(***************************************************************************)
RollingSection == current_section_heirarchy_incremental_id

\* every unit a step emits carries the rolling value: a Section unit the value
\* the Section has just set, any other unit (page end, page start, content)
\* the value that was current when the step began
UnitsCarryRollingSection ==
    \A i \in DOMAIN NewUnits :
        NewUnits[i].section_heirarchy =
            IF NewUnits[i].element_type = "DocumentSection"
            THEN RollingSection'
            ELSE RollingSection

\* a Section that is reached sets the rolling value to its own tuple
SectionSetsRollingSection ==
    (HandlesElement /\ current'.type = "DocumentSection") =>
        RollingSection' = current'.section_heirarchy_incremental_id

\* nothing but a Section changes the rolling value
OnlySectionChangesRollingSection ==
    RollingSection' # RollingSection =>
        HandlesElement /\ current'.type = "DocumentSection"

\* a skipped or failed element leaves the rolling value unchanged
SkippedOrFailedKeepRollingSection ==
    (HandlesElement /\ current'.disposition \in {"skipped", "failed"}) =>
        RollingSection' = RollingSection

\* a skipped element, and a failed element that is no Section, leaves the
\* rolling value unchanged
SkippedOrFailedNonSectionKeepRollingSection ==
    (/\ HandlesElement
     /\ current'.disposition \in {"skipped", "failed"}
     /\ current'.type # "DocumentSection") =>
        RollingSection' = RollingSection

\* C29 as stated: the section hierarchy in the metadata of each output unit is
\* the numbering tuple of the most recent Section processed before it, not the
\* unit's own element's tuple; only Section elements change the rolling value,
\* and skipped or failed elements leave it unchanged.
C29_RollingSectionAsStated ==
    [][/\ UnitsCarryRollingSection
       /\ SectionSetsRollingSection
       /\ OnlySectionChangesRollingSection
       /\ SkippedOrFailedKeepRollingSection]_vars

\* C29 amended: the section hierarchy in the metadata of each output unit is
\* the numbering tuple of the most recent Section element reached before it
\* (none before the first, none again after a Section without tuple), not the
\* unit's own element's tuple; a Section sets the rolling value as soon as it
\* is reached, also when its conversion then fails; no other element changes
\* it, and skipped or failed elements that are no Section leave it unchanged.
C29_RollingSectionOfReachedSection ==
    [][/\ UnitsCarryRollingSection
       /\ SectionSetsRollingSection
       /\ OnlySectionChangesRollingSection
       /\ SkippedOrFailedNonSectionKeepRollingSection]_vars

\* after a Section whose conversion failed, and with the failure ignored, a
\* unit of an element without numbering of its own carries the Section's tuple
C29_Witness ==
    /\ on_error = "ignore"
    /\ \A i \in DOMAIN full_output_list :
            full_output_list[i].element_type # "DocumentSection"
    /\ \E i \in DOMAIN full_output_list :
        /\ full_output_list[i].element_type = "DocumentParagraph"
        /\ full_output_list[i].section_heirarchy = <<1>>
    /\ \E i \in DOMAIN full_output_list :
            full_output_list[i].section_heirarchy = NoSection

(***************************************************************************)
(* The limiter slot of a big-chunk task                                    *)
(***************************************************************************)
Attempting(t) == chunkTasks[t] \in {"calling", "awaiting"}
Queued(t) == t \in DOMAIN chunkTasks /\ chunkTasks[t] = "waiting"
Admitted(t) == t \in DOMAIN chunkTasks /\ (InsideLimiter(t) \/ Finished(t))

\* the slot is held from the first attempt to the last: a task between two
\* attempts is inside the limiter, and the free slots plus the tasks inside
\* are CONCURRENT_SIZE
SlotHeldAcrossAttempts ==
    /\ \A t \in DOMAIN chunkTasks : Attempting(t) => InsideLimiter(t)
    /\ sem_value + Cardinality(TasksInsideLimiter) = CONCURRENT_SIZE
    /\ \A t \in DOMAIN chunkTasks : attempt_number[t] <= 3

\* a failed attempt that is retried gives no slot back, every attempt takes the
\* client the rotation points at and moves the rotation on by one, and a task
\* that leaves the limiter, by whatever exit, gives back its slot
AttemptAndExitSteps ==
    \A t \in DOMAIN chunkTasks :
        /\ (chunkTasks[t] = "awaiting" /\ chunkTasks'[t] = "calling") =>
                sem_value' = sem_value
        /\ attempt_number'[t] # attempt_number[t] =>
                /\ attempt_number'[t] = attempt_number[t] + 1
                /\ client'[t] = clients[rr_index]
                /\ rr_index' = (rr_index + 1) % client_count
                /\ sem_value' = sem_value
        /\ (InsideLimiter(t) /\ Finished(t)') => sem_value' = sem_value + 1

====
